---- MODULE Spec2Model ----
(***************************************************************************)
(* A model of the git multi-push system (tools/git-multi-push-system), of  *)
(* the Telegram client and of the Garmin JSON cleaner.                     *)
(* Spec: git-multi-push.py's URL generator, per-repository configuration   *)
(* and batch runner, as one sequential process whose position is pc.       *)
(* SpecStartup: the start of either tool, up to the first repository.      *)
(* SpecAnalyzer: analyze-git-repos.py's get_remotes and                    *)
(* classify_repository for one repository.  SpecResolver:                  *)
(* detect_service_from_url of both tools.  SpecRender:                     *)
(* generate_service_url on its own.  SpecSummary: generate_summary.        *)
(* SpecTelegram, SpecTelegramLive: TelegramClient.send_message.  SpecGeo:  *)
(* remove_geo_keys.  The git binary, the file system and the Telegram      *)
(* server are the environment: every command's or request's outcome is an  *)
(* input of the step that issues it.                                       *)
(***************************************************************************)
EXTENDS Naturals, Sequences, FiniteSets, TLC

\* Python's None, and how str.format prints it.
None == "<None>"

PyStr(v) == IF v = None THEN "None" ELSE v

\* "not x" of Python for a value that is None or a string.
Falsy(v) == v = None \/ v = ""

\* "needle in hay" of Python for two strings.
Contains(hay, needle) ==
    \E s \in 1..(Len(hay) + 1) :
        /\ s + Len(needle) - 1 <= Len(hay)
        /\ SubSeq(hay, s, s + Len(needle) - 1) = needle

(***************************************************************************)
(* Bounds of the model.                                                    *)
(***************************************************************************)
\* Longest list of repository paths handed to process_repositories.
MaxRepos == 2

\* Largest migration.batch_size tried.
MaxBatch == 2

\* Most environment faults injected into one run: a timeout or a refusal of a
\* git command that could have succeeded, an OSError of subprocess.run, a failed
\* copy of the config file; for the analyzer, a git query that fails.
MaxFaults == 1

(***************************************************************************)
(* The service catalog (config/services.yaml), in declaration order.  A    *)
(* template is the sequence of its literal pieces and placeholders; a      *)
(* missing template is the empty sequence, a missing token_env_var is None.*)
(***************************************************************************)
ServicesCatalog ==
    << [id |-> "alpha", domain |-> "alpha.example",
        url_template |-> <<"https://", "{domain}", "/", "{username}", "/", "{repo}", ".git">>,
        auth_url_template |-> <<"https://", "{username}", ":", "{token}", "@", "{domain}", "/",
                                "{username}", "/", "{repo}", ".git">>,
        ssh_url_template |-> <<"git@", "{domain}", ":", "{username}", "/", "{repo}", ".git">>,
        token_env_var |-> "ALPHA_TOKEN"],
       [id |-> "beta", domain |-> "{custom_domain}",
        url_template |-> <<"https://", "{custom_domain}", "/", "{username}", "/", "{repo}", ".git">>,
        auth_url_template |-> <<>>,
        ssh_url_template |-> <<"git@", "{custom_domain}", ":", "{username}", "/", "{repo}", ".git">>,
        token_env_var |-> None],
       [id |-> "gamma", domain |-> "gamma.example",
        url_template |-> <<"https://", "{domain}", "/", "{username}", "/", "{repo}">>,
        auth_url_template |-> <<>>,
        ssh_url_template |-> <<>>,
        token_env_var |-> None] >>

\* dict.get(service_id, {}) followed by .get(field) on the result.
EmptyService ==
    [id |-> None, domain |-> "", url_template |-> <<>>, auth_url_template |-> <<>>,
     ssh_url_template |-> <<>>, token_env_var |-> None]

\* CatalogGet that answers an unknown id with the first entry of the catalog.
CatalogGet_FirstEntry(service_id) ==
    IF \E n \in 1..Len(ServicesCatalog) : ServicesCatalog[n].id = service_id
    THEN ServicesCatalog[CHOOSE n \in 1..Len(ServicesCatalog) :
                             ServicesCatalog[n].id = service_id]
    ELSE ServicesCatalog[1]

CatalogGet(service_id) ==
    IF \E n \in 1..Len(ServicesCatalog) : ServicesCatalog[n].id = service_id
    THEN ServicesCatalog[CHOOSE n \in 1..Len(ServicesCatalog) :
                             ServicesCatalog[n].id = service_id]
    ELSE EmptyService

(***************************************************************************)
(* User configuration (config.yaml).  services maps a service id to its    *)
(* section; a key that is absent reads as None.                            *)
(***************************************************************************)
NoUserService == [username |-> None, auth_method |-> None, custom_domain |-> None]

UserServiceGet(cfg, service_id) ==
    IF service_id \in DOMAIN cfg.services THEN cfg.services[service_id] ELSE NoUserService

\* os.getenv(name): None when the variable is unset.
Getenv(environ, name) == IF name \in DOMAIN environ THEN environ[name] ELSE None

\* str.format on a template, piece by piece.
RECURSIVE Format(_, _)
Format(template, b) ==
    IF template = <<>> THEN ""
    ELSE LET piece == Head(template)
             text == CASE piece = "{username}" -> PyStr(b.username)
                       [] piece = "{repo}" -> PyStr(b.repo)
                       [] piece = "{custom_domain}" -> PyStr(b.custom_domain)
                       [] piece = "{domain}" -> PyStr(b.domain)
                       [] piece = "{token}" -> PyStr(b.token)
                       [] OTHER -> piece
         IN text \o Format(Tail(template), b)

\* ChooseTemplate without the fallback: a missing token still selects the
\* authenticated template.
ChooseTemplate_NoFallback(service_config, user_service_config, environ, auth) ==
    IF auth /\ user_service_config.auth_method = "token"
    THEN [template |-> service_config.auth_url_template, warned |-> TRUE]
    ELSE IF user_service_config.auth_method = "ssh"
    THEN [template |-> service_config.ssh_url_template, warned |-> FALSE]
    ELSE [template |-> service_config.url_template, warned |-> FALSE]

\* ChooseTemplate with ssh honoured only by calls that do not want auth.
ChooseTemplate_SshUnlessAuth(service_config, user_service_config, environ, auth) ==
    IF auth /\ user_service_config.auth_method = "token"
    THEN LET token_env_var == service_config.token_env_var
             token == IF ~Falsy(token_env_var) THEN Getenv(environ, token_env_var) ELSE None
         IN IF Falsy(token)
            THEN [template |-> service_config.url_template, warned |-> TRUE]
            ELSE [template |-> service_config.auth_url_template, warned |-> FALSE]
    ELSE IF ~auth /\ user_service_config.auth_method = "ssh"
    THEN [template |-> service_config.ssh_url_template, warned |-> FALSE]
    ELSE [template |-> service_config.url_template, warned |-> FALSE]

\* The template chosen by generate_service_url, and whether it warned.
ChooseTemplate(service_config, user_service_config, environ, auth) ==
    IF auth /\ user_service_config.auth_method = "token"
    THEN LET token_env_var == service_config.token_env_var
             token == IF ~Falsy(token_env_var) THEN Getenv(environ, token_env_var) ELSE None
         IN IF Falsy(token)
            THEN [template |-> service_config.url_template, warned |-> TRUE]
            ELSE [template |-> service_config.auth_url_template, warned |-> FALSE]
    ELSE IF user_service_config.auth_method = "ssh"
    THEN [template |-> service_config.ssh_url_template, warned |-> FALSE]
    ELSE [template |-> service_config.url_template, warned |-> FALSE]

\* generate_service_url: [ok, url, error, warned]; ok = FALSE is the ValueError.
generate_service_url(cfg, environ, service_id, repo_name, auth) ==
    LET service_config == CatalogGet(service_id)
        user_service_config == UserServiceGet(cfg, service_id)
        username == IF user_service_config.username # None
                    THEN user_service_config.username
                    ELSE cfg.user.username
        custom_domain == user_service_config.custom_domain
        domain == IF ~Falsy(custom_domain) THEN custom_domain ELSE service_config.domain
        chosen == ChooseTemplate(service_config, user_service_config, environ, auth)
        token == IF auth
                 THEN Getenv(environ, IF service_config.token_env_var = None
                                      THEN "" ELSE service_config.token_env_var)
                 ELSE ""
    IN IF Falsy(username)
       THEN [ok |-> FALSE, url |-> None, error |-> "No username configured", warned |-> FALSE]
       ELSE IF Falsy(custom_domain) /\ Contains(service_config.domain, "{custom_domain}")
       THEN [ok |-> FALSE, url |-> None, error |-> "Custom domain required", warned |-> FALSE]
       ELSE IF chosen.template = <<>>
       THEN [ok |-> FALSE, url |-> None, error |-> "No URL template found",
             warned |-> chosen.warned]
       ELSE [ok |-> TRUE,
             url |-> Format(chosen.template,
                            [username |-> username, repo |-> repo_name,
                             custom_domain |-> IF ~Falsy(custom_domain) THEN custom_domain
                                               ELSE domain,
                             domain |-> domain, token |-> token]),
             error |-> None, warned |-> chosen.warned]

(***************************************************************************)
(* The inputs of a run: user configurations, environments and target       *)
(* topologies that make every branch of the URL generator and of the       *)
(* configuration happen.                                                   *)
(***************************************************************************)
\* Global username; alpha authenticates by token, beta is self-hosted over ssh.
UserFull ==
    [user |-> [username |-> "alice"],
     services |-> [s \in {"alpha", "beta"} |->
                     IF s = "alpha"
                     THEN [username |-> None, auth_method |-> "token", custom_domain |-> None]
                     ELSE [username |-> None, auth_method |-> "ssh",
                           custom_domain |-> "git.beta.example"]]]

\* No global username: only alpha has one.
UserNoGlobalName ==
    [user |-> [username |-> None],
     services |-> [s \in {"alpha"} |->
                     [username |-> "bob", auth_method |-> None, custom_domain |-> None]]]

\* Global username and no per-service section: beta lacks its custom domain.
UserNoSections ==
    [user |-> [username |-> "alice"],
     services |-> [s \in {} |-> NoUserService]]

TokenSet == [v \in {"ALPHA_TOKEN"} |-> "s3cr3t"]

TokenUnset == [v \in {} |-> ""]

Setups ==
    { [user |-> UserFull, environ |-> TokenSet,
       primary_service |-> "alpha", push_services |-> <<"alpha", "beta", "gamma">>],
      [user |-> UserFull, environ |-> TokenUnset,
       primary_service |-> "beta", push_services |-> <<"beta", "alpha">>],
      [user |-> UserNoGlobalName, environ |-> TokenUnset,
       primary_service |-> "alpha", push_services |-> <<"alpha", "gamma">>],
      [user |-> UserNoSections, environ |-> TokenSet,
       primary_service |-> "alpha", push_services |-> <<"beta", "alpha">>],
      [user |-> UserFull, environ |-> TokenSet,
       primary_service |-> "gamma", push_services |-> <<"alpha">>],
      [user |-> UserFull, environ |-> TokenSet,
       primary_service |-> None, push_services |-> <<>>] }

\* The i-th repository path, as its segments; odd and even positions share a
\* final segment, so two paths can have one name.
RepoPath(p) == <<"srv", "d" \o ToString(p), IF p % 2 = 1 THEN "x" ELSE "y">>

\* Path(repo_path).name
PathName(path) == path[Len(path)]

\* A repository's remotes: remote name -> [url, pushurl], as git config keeps
\* them (remote.<name>.url and remote.<name>.pushurl, both multi-valued).
NoRemotes == [r \in {} |-> [url |-> <<>>, pushurl |-> <<>>]]

OldRemotes ==
    [r \in {"origin", "upstream"} |->
        IF r = "origin"
        THEN [url |-> <<"https://old.example/u/x.git">>,
              pushurl |-> <<"https://old.example/u/x.git", "https://mirror.example/u/x.git">>]
        ELSE [url |-> <<"https://up.example/u/x.git">>, pushurl |-> <<>>]]

\* The remotes a repository can have before the run.  The repositories of one run
\* start alike: no configuration reads or writes another repository's remotes.
PriorRemotes == {NoRemotes, OldRemotes}

(***************************************************************************)
(* State.                                                                  *)
(***************************************************************************)
VARIABLES
    config,        \* self.config, as loaded by load_config
    environ,       \* os.environ
    repo_paths,    \* argument of process_repositories
    dry_run,       \* argument of process_repositories
    remotes,       \* path -> the repository's remotes (its .git/config)
    remotes0,      \* remotes at the start of the run
    pc,            \* position of the run
    i,             \* start of the current batch (1-based)
    batch,         \* repo_paths[i:i+batch_size]
    j,             \* position in batch
    k,             \* position in push_services or push_urls
    service_urls,  \* service -> rendered URL
    push_urls,     \* test_connectivity's list of push URLs
    ret,           \* what configure_multi_push returned: "True", "False", "raised"
    results,       \* successful / failed / skipped
    calls,         \* paths configure_multi_push was called with, in order
    outcomes,      \* what each of these calls returned, in order
    steps,         \* steps of the current configuration, in order
    issued,        \* mutating git commands issued by the current configuration
    mutfailed,     \* a remote add or set-url of the current configuration failed
    backup,        \* the current configuration's backup: "none", "skipped", "written", "failed"
    is_git,        \* whether the current repository path holds a .git
    probes,        \* ls-remote probes run for the current repository
    faults         \* environment faults injected so far

\* The start of either tool: main() up to the call that processes repositories.
VARIABLES
    tool,          \* the script that was started
    files,         \* path -> what open() and yaml.safe_load() find there
    args,          \* the command line: --config and --preset
    startup_pc,    \* position of the start-up
    config_paths,  \* load_config's candidate paths, in order
    n_path,        \* position in config_paths
    loaded_from,   \* the path self.config was loaded from, None if from no file
    exit_code,     \* the status the process ended with, None while it runs
    encountered    \* the missing or unparseable files met so far

\* State of the configurator's run (process_repositories).
managervars == <<config, environ, repo_paths, dry_run, remotes, remotes0, pc, i, batch, j, k,
                 service_urls, push_urls, ret, results, calls, outcomes, steps, issued,
                 mutfailed, backup, is_git, probes, faults>>

startupvars == <<tool, files, args, startup_pc, config_paths, n_path, loaded_from, exit_code,
                 encountered>>

\* One analysis of a repository by analyze-git-repos.py.
VARIABLES
    analyzer_config, \* the multi_push section of the analyzer's self.config
    hashseed,        \* the interpreter's hash seed: it fixes the order a set is iterated in
    git_remotes,     \* the analysed repository's remotes (its .git/config)
    remote_names,    \* get_remotes: the output lines of "git remote"
    analysis,        \* analysis['remotes'] and analysis['classification']
    classification,  \* classify_repository's local dict
    analyzer_pc,     \* position of the analysis
    n_remote,        \* position in remote_names or in analysis['remotes']
    classified,      \* what each call of classify_repository returned, in order
    read_faults      \* git queries that have failed so far

\* One call of detect_service_from_url, of either tool.
VARIABLES
    services_config, \* self.services_config['services'], in declaration order
    url_arg,         \* the url argument
    resolved         \* implementation -> what it returned

analyzervars == <<analyzer_config, hashseed, git_remotes, remote_names, analysis,
                  classification, analyzer_pc, n_remote, classified, read_faults>>

resolvervars == <<services_config, url_arg, resolved>>

\* Calls of generate_service_url on one configuration, with and without auth.
VARIABLES
    render_config,   \* self.config, as far as generate_service_url reads it
    render_environ,  \* os.environ
    render_service,  \* the service_id argument
    rendered         \* auth -> what the call returned, and the template it chose

rendervars == <<render_config, render_environ, render_service, rendered>>

\* One call of generate_summary.
VARIABLES
    analyses,        \* the analyses argument
    summary,         \* the summary dict being filled
    n_analysis,      \* position of "for analysis in analyses"
    summary_pc       \* "idle", "loop", "round", "returned"

summaryvars == <<analyses, summary, n_analysis, summary_pc>>

\* One call of TelegramClient.send_message or send_plain_message.
VARIABLES
    default_parse_mode, \* self.default_parse_mode
    sender,             \* the public method called, None before the call
    message,            \* the message argument
    parse_mode,         \* the parse_mode of the running send_message
    max_retries,        \* the max_retries of the running send_message
    max_retries0,       \* the max_retries the caller gave
    attempt,            \* the loop variable of the running send_message
    payload,            \* the payload of the running send_message
    retrying,           \* the running send_message is the retry "without parse_mode"
    posts,              \* the requests.post calls made: payload, response, retry or not
    telegram_pc,        \* "idle", "caller", "send_message", "loop", "returned", "raised"
    sent                \* what the call returned: "True" or "False"

telegramvars == <<default_parse_mode, sender, message, parse_mode, max_retries, max_retries0,
                  attempt, payload, retrying, posts, telegram_pc, sent>>

\* remove_geo_keys applied to one parsed JSON document.
VARIABLES
    data,            \* the document as json.load returned it
    cleanings        \* what each call of remove_geo_keys left of it, and whether it raised

geovars == <<data, cleanings>>

\* The other operations of the repository, each modelled on its own.
othervars == <<rendervars, summaryvars, telegramvars, geovars>>

\* What process_repositories never touches.
elsewhere == <<startupvars, analyzervars, resolvervars, othervars>>

\* What the start-up never touches.
beyond_startup == <<managervars, analyzervars, resolvervars, othervars>>

\* What main leaves alone when it loads self.config and decides on the dry run.
after_startup == <<environ, repo_paths, remotes, remotes0, pc, i, batch, j, k, service_urls,
                   push_urls, ret, results, calls, outcomes, steps, issued, mutfailed, backup,
                   is_git, probes, faults, analyzervars, resolvervars, othervars>>

vars == <<managervars, elsewhere>>

inputs == <<config, environ, repo_paths, dry_run, remotes0>>

primary_service == config.multi_push.primary_service

push_services == config.multi_push.push_services

batch_size == config.migration.batch_size

stop_on_error == config.migration.stop_on_first_error

repo_path == batch[j]

repo_name == PathName(repo_path)

NoUrls == [s \in {} |-> ""]

\* No tool is starting: process_repositories has been called.
StartupIdle ==
    /\ tool = None
    /\ files = <<>>
    /\ args = <<>>
    /\ startup_pc = "idle"
    /\ config_paths = <<>>
    /\ n_path = 1
    /\ loaded_from = None
    /\ exit_code = None
    /\ encountered = {}

\* No repository is being analysed.
AnalyzerIdle ==
    /\ analyzer_config = <<>>
    /\ hashseed = 1
    /\ git_remotes = <<>>
    /\ remote_names = <<>>
    /\ analysis = <<>>
    /\ classification = <<>>
    /\ analyzer_pc = "idle"
    /\ n_remote = 1
    /\ classified = <<>>
    /\ read_faults = 0

\* No URL is being resolved.
ResolverIdle ==
    /\ services_config = <<>>
    /\ url_arg = None
    /\ resolved = <<>>

\* No URL is being rendered on its own.
RenderIdle ==
    /\ render_config = <<>>
    /\ render_environ = <<>>
    /\ render_service = None
    /\ rendered = <<>>

\* No summary is being generated.
SummaryIdle ==
    /\ analyses = <<>>
    /\ summary = <<>>
    /\ n_analysis = 1
    /\ summary_pc = "idle"

\* No message is being sent.
TelegramIdle ==
    /\ default_parse_mode = None
    /\ sender = None
    /\ message = ""
    /\ parse_mode = None
    /\ max_retries = 0
    /\ max_retries0 = 0
    /\ attempt = 0
    /\ payload = <<>>
    /\ retrying = FALSE
    /\ posts = <<>>
    /\ telegram_pc = "idle"
    /\ sent = None

\* No document is being cleaned.
GeoIdle == data = <<>> /\ cleanings = <<>>

OthersIdle == RenderIdle /\ SummaryIdle /\ TelegramIdle /\ GeoIdle

Init ==
    \E setup \in Setups, create_backups \in BOOLEAN, stop \in BOOLEAN,
       test_conn \in BOOLEAN, size \in 1..MaxBatch, dry \in BOOLEAN, n \in 1..MaxRepos :
      \E prior \in {[path \in {RepoPath(p) : p \in 1..n} |-> rs] : rs \in PriorRemotes} :
        /\ config = [user |-> setup.user.user,
                     services |-> setup.user.services,
                     multi_push |-> [primary_service |-> setup.primary_service,
                                     push_services |-> setup.push_services],
                     migration |-> [create_backups |-> create_backups,
                                    batch_size |-> size,
                                    stop_on_first_error |-> stop],
                     advanced |-> [test_connectivity |-> test_conn]]
        /\ environ = setup.environ
        /\ repo_paths = [p \in 1..n |-> RepoPath(p)]
        /\ dry_run = dry
        /\ remotes = prior
        /\ remotes0 = prior
        /\ pc = "batch"
        /\ i = 1
        /\ batch = <<>>
        /\ j = 1
        /\ k = 1
        /\ service_urls = NoUrls
        /\ push_urls = <<>>
        /\ ret = None
        /\ results = [successful |-> <<>>, failed |-> <<>>, skipped |-> <<>>]
        /\ calls = <<>>
        /\ outcomes = <<>>
        /\ steps = <<>>
        /\ issued = <<>>
        /\ mutfailed = FALSE
        /\ backup = "none"
        /\ is_git = FALSE
        /\ probes = 0
        /\ faults = 0
        /\ StartupIdle
        /\ AnalyzerIdle
        /\ ResolverIdle
        /\ OthersIdle

(***************************************************************************)
(* git, as the configurator uses it.                                       *)
(***************************************************************************)
\* Outcome of one subprocess.run: the command succeeded; it exited non-zero or
\* timed out; subprocess.run raised something else (an OSError).
GitOutcomes == {"ok", "failed", "oserror"}

HasRemote(rs, name) == name \in DOMAIN rs

\* git remote remove <name>
GitRemoteRemove(rs, name) == [r \in DOMAIN rs \ {name} |-> rs[r]]

\* git remote add <name> <url>
GitRemoteAdd(rs, name, url) ==
    [r \in DOMAIN rs \cup {name} |->
        IF r = name THEN [url |-> <<url>>, pushurl |-> <<>>] ELSE rs[r]]

\* git remote set-url --add --push <name> <url>
GitAddPushUrl(rs, name, url) == [rs EXCEPT ![name].pushurl = Append(@, url)]

\* git remote get-url --push --all <name>
GitPushUrls(rs, name) == IF rs[name].pushurl # <<>> THEN rs[name].pushurl ELSE rs[name].url

(***************************************************************************)
(* process_repositories: the batch loops.                                  *)
(***************************************************************************)
loopvars == <<i, batch, j>>

cfgvars == <<k, service_urls, push_urls, ret>>

histvars == <<calls, outcomes, steps, issued, mutfailed, backup, is_git, probes>>

\* A fault can be injected while the budget lasts.
CanFault == faults < MaxFaults

\* The outcomes a command can have: "ok" only if git can carry it out (possible),
\* and then any other outcome is a fault; an OSError always is one.
Outcomes(possible) ==
    {out \in GitOutcomes :
        /\ out = "ok" => possible
        /\ (out = "oserror" \/ (possible /\ out = "failed")) => CanFault}

IsFault(possible, out) == out = "oserror" \/ (possible /\ out = "failed")

Inject(possible, out) == faults' = faults + (IF IsFault(possible, out) THEN 1 ELSE 0)

\* The locals of configure_multi_push and test_connectivity end with the call,
\* and the record of the repository's configuration with them.
EndOfRepo ==
    /\ k' = 1
    /\ service_urls' = NoUrls
    /\ push_urls' = <<>>
    /\ steps' = <<>>
    /\ issued' = <<>>
    /\ mutfailed' = FALSE
    /\ backup' = "none"
    /\ is_git' = FALSE
    /\ probes' = 0

\* The end of the inner loop's body: the delay, then the next repository.
NextRepo == /\ pc' = "repo" /\ j' = j + 1 /\ UNCHANGED <<i, batch>>

\* "break": leaves the inner loop; the outer loop goes on with the next batch.
Break == /\ pc' = "batch" /\ i' = i + batch_size /\ UNCHANGED <<batch, j>>

\* AfterFailure with the flag ignored: any failure leaves the loop.
AfterFailure_AlwaysBreak == Break

\* What follows a repository recorded as failed.
AfterFailure == IF stop_on_error THEN Break ELSE NextRepo

\* for i in range(0, len(repo_paths), batch_size): batch = repo_paths[i:i+batch_size]
BatchLoop ==
    /\ pc = "batch"
    /\ IF i <= Len(repo_paths)
       THEN /\ batch' = SubSeq(repo_paths, i,
                               IF i + batch_size - 1 <= Len(repo_paths)
                               THEN i + batch_size - 1 ELSE Len(repo_paths))
            /\ j' = 1
            /\ pc' = "repo"
       ELSE /\ pc' = "summary"
            /\ UNCHANGED <<batch, j>>
    /\ UNCHANGED <<elsewhere, inputs, remotes, i, cfgvars, results, histvars, faults>>

\* for repo_path in batch: ... success = self.configure_multi_push(...)
RepoLoop ==
    /\ pc = "repo"
    /\ IF j <= Len(batch)
       THEN /\ pc' = "cfg_exists"
            /\ calls' = Append(calls, repo_path)
            /\ UNCHANGED i
       ELSE /\ pc' = "batch"
            /\ i' = i + batch_size
            /\ UNCHANGED calls
    /\ UNCHANGED <<elsewhere, inputs, remotes, batch, j, results, cfgvars, outcomes, steps, issued,
                   mutfailed, backup, is_git, probes, faults>>

(***************************************************************************)
(* configure_multi_push, step by step.                                     *)
(***************************************************************************)
Return(value) == /\ ret' = value /\ pc' = "record"

\* CfgExists without the early return: the path is taken for a repository.
CfgExists_NoCheck ==
    /\ pc = "cfg_exists"
    /\ \E exists \in BOOLEAN :
         /\ is_git' = exists
         /\ pc' = "cfg_backup"
    /\ UNCHANGED <<elsewhere, inputs, remotes, loopvars, cfgvars, results,
                   calls, outcomes, steps, issued, mutfailed, backup, probes, faults>>

\* if not Path(repo_path, '.git').exists(): return False
CfgExists ==
    /\ pc = "cfg_exists"
    /\ \E exists \in BOOLEAN :
         /\ is_git' = exists
         /\ IF exists THEN pc' = "cfg_backup" /\ UNCHANGED ret ELSE Return("False")
    /\ UNCHANGED <<elsewhere, inputs, remotes, loopvars, k, service_urls, push_urls, results,
                   calls, outcomes, steps, issued, mutfailed, backup, probes, faults>>

\* backup_git_config with the failed copy swallowed.
backup_git_config_Swallow(create_backups, copied) == TRUE

\* backup_git_config's result; copied is whether shutil.copy2 succeeded.
backup_git_config(create_backups, copied) ==
    IF ~create_backups THEN TRUE
    ELSE IF copied THEN TRUE
    ELSE FALSE

\* if not dry_run and not self.backup_git_config(repo_path): return False
CfgBackup ==
    /\ pc = "cfg_backup"
    /\ IF dry_run
       THEN /\ pc' = "cfg_inspect"
            /\ UNCHANGED <<ret, steps, backup, faults>>
       ELSE \E copied \in IF config.migration.create_backups /\ CanFault
                           THEN BOOLEAN ELSE {TRUE} :
              LET b == backup_git_config(config.migration.create_backups, copied)
              IN /\ steps' = Append(steps, "BackingUp")
                 /\ faults' = faults + (IF copied THEN 0 ELSE 1)
                 /\ backup' = (IF ~config.migration.create_backups THEN "skipped"
                                ELSE IF copied THEN "written" ELSE "failed")
                 /\ IF b THEN pc' = "cfg_inspect" /\ UNCHANGED ret ELSE Return("False")
    /\ UNCHANGED <<elsewhere, inputs, remotes, loopvars, k, service_urls, push_urls, results,
                   calls, outcomes, issued, mutfailed, is_git, probes>>

\* current_remotes = self.get_current_remotes(repo_path): read-only queries whose
\* result is only logged; an OSError of subprocess.run leaves the function.
CfgInspect ==
    /\ pc = "cfg_inspect"
    /\ steps' = Append(steps, "Inspecting")
    /\ \E out \in Outcomes(TRUE) \ {"failed"} :
         /\ Inject(TRUE, out)
         /\ IF out = "ok" THEN pc' = "cfg_target" /\ UNCHANGED ret ELSE Return("raised")
    /\ UNCHANGED <<elsewhere, inputs, remotes, loopvars, k, service_urls, push_urls, results,
                   calls, outcomes, issued, mutfailed, backup, is_git, probes>>

\* if not primary_service or not push_services: return False
CfgTarget ==
    /\ pc = "cfg_target"
    /\ IF Falsy(primary_service) \/ push_services = <<>>
       THEN Return("False") /\ UNCHANGED steps
       ELSE /\ pc' = "cfg_render"
            /\ steps' = Append(steps, "Rendering")
            /\ UNCHANGED ret
    /\ k' = 1
    /\ service_urls' = NoUrls
    /\ UNCHANGED <<elsewhere, inputs, remotes, loopvars, push_urls, results,
                   calls, outcomes, issued, mutfailed, backup, is_git, probes, faults>>

\* CfgRender that skips a service whose URL does not render ("continue" for
\* "return False").
CfgRender_SkipFailed ==
    /\ pc = "cfg_render"
    /\ k <= Len(push_services)
    /\ LET service == push_services[k]
           r == generate_service_url(config, environ, service, repo_name, TRUE)
       IN /\ service_urls' = IF r.ok
                             THEN [s \in DOMAIN service_urls \cup {service} |->
                                     IF s = service THEN r.url ELSE service_urls[s]]
                             ELSE service_urls
          /\ k' = k + 1
    /\ UNCHANGED <<elsewhere, inputs, remotes, loopvars, pc, ret, push_urls, results, histvars, faults>>

\* for service in push_services: url = self.generate_service_url(service, repo_name, auth=True)
CfgRender ==
    /\ pc = "cfg_render"
    /\ k <= Len(push_services)
    /\ LET service == push_services[k]
           r == generate_service_url(config, environ, service, repo_name, TRUE)
       IN IF r.ok
          THEN /\ service_urls' = [s \in DOMAIN service_urls \cup {service} |->
                                     IF s = service THEN r.url ELSE service_urls[s]]
               /\ k' = k + 1
               /\ UNCHANGED <<pc, ret>>
          ELSE /\ Return("False")
               /\ UNCHANGED <<service_urls, k>>
    /\ UNCHANGED <<elsewhere, inputs, remotes, loopvars, push_urls, results, histvars, faults>>

\* CfgDryRun without the return: a dry run goes on to rewrite the remotes.
CfgDryRun_NoReturn ==
    /\ pc = "cfg_render"
    /\ k > Len(push_services)
    /\ pc' = "cfg_remove"
    /\ UNCHANGED <<elsewhere, inputs, remotes, loopvars, cfgvars, results, histvars, faults>>

\* if dry_run: return True
CfgDryRun ==
    /\ pc = "cfg_render"
    /\ k > Len(push_services)
    /\ IF dry_run THEN Return("True") ELSE pc' = "cfg_remove" /\ UNCHANGED ret
    /\ UNCHANGED <<elsewhere, inputs, remotes, loopvars, k, service_urls, push_urls, results, histvars,
                   faults>>

\* run_git_command on an outcome of subprocess.run: stdout is returned; a
\* CalledProcessError or TimeoutExpired is logged and None returned; anything
\* else propagates to the caller.
run_git_command(out) ==
    CASE out = "ok" -> "stdout"
      [] out = "failed" -> None
      [] out = "oserror" -> "raise"

\* self.run_git_command(repo_path, ['remote', 'remove', 'origin'], check=False)
CfgRemove ==
    /\ pc = "cfg_remove"
    /\ steps' = Append(steps, "Rewriting")
    /\ issued' = Append(issued, "remove")
    /\ \E out \in Outcomes(HasRemote(remotes[repo_path], "origin")) :
         /\ Inject(HasRemote(remotes[repo_path], "origin"), out)
         /\ remotes' = IF out = "ok"
                       THEN [remotes EXCEPT ![repo_path] = GitRemoteRemove(@, "origin")]
                       ELSE remotes
         /\ IF run_git_command(out) = "raise"
            THEN Return("False")
            ELSE pc' = "cfg_add" /\ UNCHANGED ret
    /\ UNCHANGED <<elsewhere, inputs, loopvars, k, service_urls, push_urls, results,
                   calls, outcomes, mutfailed, backup, is_git, probes>>

\* primary_url = service_urls[primary_service]
\* self.run_git_command(repo_path, ['remote', 'add', 'origin', primary_url])
CfgAdd ==
    /\ pc = "cfg_add"
    /\ IF primary_service \notin DOMAIN service_urls
       THEN /\ Return("False")
            /\ UNCHANGED <<remotes, issued, mutfailed, faults>>
       ELSE /\ issued' = Append(issued, "add")
            /\ \E out \in Outcomes(~HasRemote(remotes[repo_path], "origin")) :
                 /\ Inject(~HasRemote(remotes[repo_path], "origin"), out)
                 /\ remotes' = IF out = "ok"
                               THEN [remotes EXCEPT ![repo_path] =
                                       GitRemoteAdd(@, "origin", service_urls[primary_service])]
                               ELSE remotes
                 /\ mutfailed' = (mutfailed \/ out = "failed")
                 /\ IF run_git_command(out) = "raise"
                    THEN Return("False")
                    ELSE pc' = "cfg_push" /\ UNCHANGED ret
    /\ k' = 1
    /\ UNCHANGED <<elsewhere, inputs, loopvars, service_urls, push_urls, results,
                   calls, outcomes, steps, backup, is_git, probes>>

\* for service in push_services:
\*     self.run_git_command(repo_path, ['remote', 'set-url', '--add', '--push', 'origin', url])
CfgPush ==
    /\ pc = "cfg_push"
    /\ k <= Len(push_services)
    /\ issued' = Append(issued, "set-url")
    /\ \E out \in Outcomes(HasRemote(remotes[repo_path], "origin")) :
         /\ Inject(HasRemote(remotes[repo_path], "origin"), out)
         /\ remotes' = IF out = "ok"
                       THEN [remotes EXCEPT ![repo_path] =
                               GitAddPushUrl(@, "origin", service_urls[push_services[k]])]
                       ELSE remotes
         /\ mutfailed' = (mutfailed \/ out = "failed")
         /\ IF run_git_command(out) = "raise"
            THEN Return("False") /\ UNCHANGED k
            ELSE k' = k + 1 /\ UNCHANGED <<pc, ret>>
    /\ UNCHANGED <<elsewhere, inputs, loopvars, service_urls, push_urls, results,
                   calls, outcomes, steps, backup, is_git, probes>>

\* CfgVerify with the verification left out: success right after the last push URL.
CfgVerify_Omitted ==
    /\ pc = "cfg_push"
    /\ k > Len(push_services)
    /\ Return("True")
    /\ UNCHANGED <<elsewhere, inputs, remotes, loopvars, k, service_urls, push_urls, results,
                   histvars, faults>>

\* verification = self.run_git_command(repo_path, ['remote', '-v']); return True
CfgVerify ==
    /\ pc = "cfg_push"
    /\ k > Len(push_services)
    /\ steps' = Append(steps, "Verifying")
    /\ \E out \in Outcomes(TRUE) :
         /\ Inject(TRUE, out)
         /\ IF run_git_command(out) = "raise" THEN Return("False") ELSE Return("True")
    /\ UNCHANGED <<elsewhere, inputs, remotes, loopvars, k, service_urls, push_urls, results,
                   calls, outcomes, issued, mutfailed, backup, is_git, probes>>

(***************************************************************************)
(* process_repositories: recording the outcome, and the connectivity probe.*)
(***************************************************************************)
\* if success: results['successful'].append(...) else: results['failed'].append(...)
\* except Exception: results['failed'].append(...)
Record ==
    /\ pc = "record"
    /\ IF ret = "True"
       THEN /\ results' = [results EXCEPT !.successful = Append(@, repo_name)]
            /\ IF ~dry_run /\ config.advanced.test_connectivity
               THEN /\ pc' = "probe_urls"
                    /\ UNCHANGED <<loopvars, k, service_urls, push_urls, steps, issued,
                                   mutfailed, backup, is_git, probes>>
               ELSE NextRepo /\ EndOfRepo
       ELSE /\ results' = [results EXCEPT !.failed = Append(@, repo_name)]
            /\ AfterFailure
            /\ EndOfRepo
    /\ outcomes' = Append(outcomes, ret)
    /\ UNCHANGED <<elsewhere, inputs, remotes, ret, calls, faults>>

\* test_connectivity: push_urls_output = self.run_git_command(..., ['remote', 'get-url',
\* '--push', '--all', 'origin'], check=False); an exception reaches the handler of
\* process_repositories, which records the repository as failed.
ProbeUrls ==
    /\ pc = "probe_urls"
    /\ \E out \in Outcomes(HasRemote(remotes[repo_path], "origin")) :
         /\ Inject(HasRemote(remotes[repo_path], "origin"), out)
         /\ CASE run_git_command(out) = "raise" ->
                  /\ results' = [results EXCEPT !.failed = Append(@, repo_name)]
                  /\ AfterFailure
                  /\ EndOfRepo
             [] run_git_command(out) = None ->
                  /\ NextRepo
                  /\ EndOfRepo
                  /\ UNCHANGED results
             [] OTHER ->
                  /\ push_urls' = GitPushUrls(remotes[repo_path], "origin")
                  /\ k' = 1
                  /\ pc' = "probe"
                  /\ UNCHANGED <<results, loopvars, service_urls, steps, issued, mutfailed,
                                 backup, is_git, probes>>
    /\ UNCHANGED <<elsewhere, inputs, remotes, ret, calls, outcomes>>

\* for url in push_urls: subprocess.run(['git', 'ls-remote', '--exit-code', url], ...)
Probe ==
    /\ pc = "probe"
    /\ k <= Len(push_urls)
    /\ \E out \in {"ok", "failed"} \cup (IF CanFault THEN {"oserror"} ELSE {}) :
         /\ Inject(FALSE, out)
         /\ IF out = "oserror"
            THEN /\ results' = [results EXCEPT !.failed = Append(@, repo_name)]
                 /\ AfterFailure
                 /\ EndOfRepo
            ELSE /\ k' = k + 1
                 /\ probes' = probes + 1
                 /\ UNCHANGED <<pc, results, loopvars, service_urls, push_urls, steps, issued,
                                mutfailed, backup, is_git>>
    /\ UNCHANGED <<elsewhere, inputs, remotes, ret, calls, outcomes>>

\* return results (of test_connectivity); then the delay and the next repository.
ProbeDone ==
    /\ pc = "probe"
    /\ k > Len(push_urls)
    /\ NextRepo
    /\ EndOfRepo
    /\ UNCHANGED <<elsewhere, inputs, remotes, ret, results, calls, outcomes, faults>>

\* The summary is logged and results returned.
Summary ==
    /\ pc = "summary"
    /\ pc' = "done"
    /\ UNCHANGED <<elsewhere, inputs, remotes, loopvars, cfgvars, results, histvars, faults>>

Next ==
    \/ BatchLoop
    \/ RepoLoop
    \/ CfgExists
    \/ CfgBackup
    \/ CfgInspect
    \/ CfgTarget
    \/ CfgRender
    \/ CfgDryRun
    \/ CfgRemove
    \/ CfgAdd
    \/ CfgPush
    \/ CfgVerify
    \/ Record
    \/ ProbeUrls
    \/ Probe
    \/ ProbeDone
    \/ Summary

Spec == Init /\ [][Next]_vars

(***************************************************************************)
(* Properties.                                                             *)
(***************************************************************************)
Range(seq) == {seq[n] : n \in 1..Len(seq)}

IsPrefix(a, b) == Len(a) <= Len(b) /\ a = SubSeq(b, 1, Len(a))

\* The URL the current repository gets for a service (rendered with auth=True).
Rendered(service) == generate_service_url(config, environ, service, repo_name, TRUE)

AllRender == \A m \in 1..Len(push_services) : Rendered(push_services[m]).ok

TargetConfigured == ~Falsy(primary_service) /\ push_services # <<>>

\* configure_multi_push has returned (or raised) and the result is not yet recorded.
Returned == pc = "record"

\* Calls of configure_multi_push that did not return success.
FailedCalls == {c \in 1..Len(outcomes) : outcomes[c] # "True"}

\* C1: after a successful non-dry-run configuration, origin has exactly one fetch
\* URL, the primary service's, and the push URLs of push_services in order,
\* whatever the prior remotes and the outcomes of the git commands.
C1_OriginAfterSuccess ==
    (Returned /\ ret = "True" /\ ~dry_run) =>
        /\ HasRemote(remotes[repo_path], "origin")
        /\ remotes[repo_path]["origin"].url = <<Rendered(primary_service).url>>
        /\ remotes[repo_path]["origin"].pushurl =
              [m \in 1..Len(push_services) |-> Rendered(push_services[m]).url]

\* C2: a dry run issues no remote remove, add or set-url, writes no backup, runs
\* no probe, and leaves every repository's remotes as they were.
C2_DryRunNeverMutates ==
    dry_run =>
        /\ remotes = remotes0
        /\ issued = <<>>
        /\ backup = "none"
        /\ probes = 0
        /\ pc \notin {"cfg_remove", "cfg_add", "cfg_push", "probe_urls", "probe"}

C2_Witness ==
    /\ dry_run
    /\ pc = "done"
    /\ Len(repo_paths) >= 2
    /\ Len(results.successful) = Len(repo_paths)
    /\ \E p \in DOMAIN remotes0 : HasRemote(remotes0[p], "origin")

\* C3: with stop_on_first_error, no repository after the first one whose
\* configuration fails is configured, for every batch_size.
C3_StopsAtFirstFailure ==
    stop_on_error => \A c \in FailedCalls : Len(calls) = c

\* C4: a failed remote add or set-url makes configure_multi_push return failure.
C4_MutatingFailureAborts ==
    (Returned /\ mutfailed) => ret = "False"

\* C5: every URL is rendered before any remote is rewritten; a render failure
\* returns failure with no mutating command issued and the remotes untouched.
C5_RenderBeforeRewrite ==
    /\ issued # <<>> => \A m \in 1..Len(push_services) : push_services[m] \in DOMAIN service_urls
    /\ (Returned /\ "Rendering" \in Range(steps) /\ ~AllRender) =>
          /\ ret = "False"
          /\ issued = <<>>
          /\ remotes[repo_path] = remotes0[repo_path]

\* The second service of push_services fails to render in a non-dry-run.
C5_Witness ==
    /\ Returned
    /\ ~dry_run
    /\ "Rendering" \in Range(steps)
    /\ Len(push_services) >= 2
    /\ Rendered(push_services[1]).ok
    /\ ~Rendered(push_services[2]).ok
    /\ ret = "False"

\* C6 as stated: a dry-run configuration always returns success.
C6_DryRunAlwaysDone ==
    (dry_run /\ Returned) => ret = "True"

\* C6, amended: a dry-run configuration never mutates, and returns success exactly
\* when the path is a git repository, reading the remotes raises nothing, the
\* target is configured and every push service's URL renders.
C6_DryRunDoneIff ==
    (dry_run /\ Returned) =>
        /\ ret = "True" <=> (is_git /\ ret # "raised" /\ TargetConfigured /\ AllRender)
        /\ ret = "raised" => is_git
        /\ issued = <<>>
        /\ remotes = remotes0

\* A dry run of a git repository with a configured target fails on a render error.
C6_Witness ==
    /\ dry_run
    /\ Returned
    /\ is_git
    /\ TargetConfigured
    /\ ~AllRender
    /\ ret = "False"

\* The steps in the order the specification gives them, and in the code's order.
SpecSteps == <<"Inspecting", "BackingUp", "Rendering", "Rewriting", "Verifying">>

CodeSteps(dry) ==
    IF dry THEN <<"Inspecting", "Rendering">>
    ELSE <<"BackingUp", "Inspecting", "Rendering", "Rewriting", "Verifying">>

Rank(order, step) == CHOOSE n \in 1..Len(order) : order[n] = step

\* C7 as stated: the steps are entered in the order Inspecting, Backing up,
\* Rendering, Rewriting, Verifying (the remotes are read before the backup).
C7_SpecStepOrder ==
    \A a, b \in 1..Len(steps) :
        a < b => Rank(SpecSteps, steps[a]) < Rank(SpecSteps, steps[b])

\* C7, amended: the steps are entered in the order Backing up, Inspecting,
\* Rendering, Rewriting, Verifying, none skipped (a dry run has only Inspecting
\* and Rendering); a configuration that returns success went through all of
\* them, and it ends by returning success or failure or, when reading the remotes
\* raises, with that exception.
C7_CodeStepOrder ==
    /\ IsPrefix(steps, CodeSteps(dry_run))
    /\ Returned =>
          /\ ret \in {"True", "False", "raised"}
          /\ ret = "True" => steps = CodeSteps(dry_run)
          /\ ret = "raised" => steps[Len(steps)] = "Inspecting"

C7_Witness ==
    /\ Returned
    /\ ~dry_run
    /\ ret = "True"
    /\ steps = <<"BackingUp", "Inspecting", "Rendering", "Rewriting", "Verifying">>

\* C8: without stop_on_first_error, configure_multi_push runs once per path, in
\* input order, across all batches; a configuration that fails or raises is
\* recorded as failed and the run goes on.
C8_AllProcessedWithoutStop ==
    ~stop_on_error =>
        /\ IsPrefix(calls, repo_paths)
        /\ pc \in {"summary", "done"} =>
              /\ calls = repo_paths
              /\ Len(outcomes) = Len(repo_paths)
        /\ Len(results.failed) >= Cardinality(FailedCalls)
        /\ \A c \in FailedCalls : PathName(calls[c]) \in Range(results.failed)

\* Two batches of one; the first repository's configuration raises, the second
\* is configured all the same.
C8_Witness ==
    /\ ~stop_on_error
    /\ pc = "done"
    /\ batch_size = 1
    /\ outcomes = <<"raised", "True">>
    /\ results.failed = <<PathName(repo_paths[1])>>
    /\ results.successful = <<PathName(repo_paths[2])>>

\* C9: whatever happens during the probe, the repository's outcome stays: only
\* failed configurations are recorded as failed.
C9_ProbeKeepsOutcome ==
    Len(results.failed) = Cardinality(FailedCalls)

\* C10: a failed config backup (non-dry-run, backups enabled) returns failure
\* before any URL is rendered or any remote changed; with create_backups
\* disabled no backup is written and none fails.
C10_BackupFailureAborts ==
    /\ backup = "failed" =>
          /\ ~dry_run
          /\ config.migration.create_backups
          /\ Returned
          /\ ret = "False"
          /\ steps = <<"BackingUp">>
          /\ service_urls = NoUrls
          /\ issued = <<>>
          /\ remotes[repo_path] = remotes0[repo_path]
    /\ ~config.migration.create_backups => backup \in {"none", "skipped"}
    /\ backup = "skipped" => ~config.migration.create_backups /\ ~dry_run

C10_Witness ==
    /\ backup = "failed"
    /\ Returned
    /\ ret = "False"
    /\ HasRemote(remotes[repo_path], "origin")

\* How often a name occurs in a list.
Count(name, seq) == Cardinality({n \in 1..Len(seq) : seq[n] = name})

\* C11: the result of process_repositories is a partition: once the run is over,
\* every repository that was processed appears in exactly one of successful,
\* failed, skipped, and exactly once in it.
C11_ResultsPartition ==
    pc = "done" =>
        \A c \in 1..Len(calls) :
            Count(PathName(calls[c]),
                  results.successful \o results.failed \o results.skipped) = 1

(***************************************************************************)
(* The start of the two tools: main() builds GitMultiPushManager or        *)
(* GitRepositoryAnalyzer, whose constructor loads config/services.yaml and *)
(* then the user configuration, and goes on to the repositories.           *)
(***************************************************************************)
Tools == {"git-multi-push", "analyze-git-repos"}

\* What a path holds: no file, a file yaml.safe_load rejects, a file it parses.
FileStates == {"missing", "malformed", "ok"}

ServicesPath == "config/services.yaml"

GivenPath == "my-config.yaml"

PresetPath == "config/presets/triple-redundancy.yaml"

DefaultPaths == <<"config/config.yaml", "config/config.yaml.example">>

\* The command lines tried: nothing, --config, --preset, both, each with and
\* without --dry-run and --force.  Only git-multi-push.py has --preset,
\* --dry-run and --force.
ArgsOf(t) ==
    {[config |-> c, preset |-> p, dry_run |-> d, force |-> f] :
        c \in {None, GivenPath},
        p \in IF t = "git-multi-push" THEN {None, "triple-redundancy"} ELSE {None},
        d \in IF t = "git-multi-push" THEN BOOLEAN ELSE {FALSE},
        f \in IF t = "git-multi-push" THEN BOOLEAN ELSE {FALSE}}

\* No configurator run is going on.
ManagerIdle ==
    /\ config = <<>>
    /\ environ = <<>>
    /\ repo_paths = <<>>
    /\ dry_run = FALSE
    /\ remotes = <<>>
    /\ remotes0 = <<>>
    /\ pc = "idle"
    /\ i = 1
    /\ batch = <<>>
    /\ j = 1
    /\ k = 1
    /\ service_urls = NoUrls
    /\ push_urls = <<>>
    /\ ret = None
    /\ results = [successful |-> <<>>, failed |-> <<>>, skipped |-> <<>>]
    /\ calls = <<>>
    /\ outcomes = <<>>
    /\ steps = <<>>
    /\ issued = <<>>
    /\ mutfailed = FALSE
    /\ backup = "none"
    /\ is_git = FALSE
    /\ probes = 0
    /\ faults = 0

\* load_config's candidates: the --config path, else the preset's path, then the
\* two default locations.  The analyzer has no preset.
CandidatePaths(t, a) ==
    (IF a.config # None THEN <<a.config>>
     ELSE IF t = "git-multi-push" /\ a.preset # None THEN <<PresetPath>>
     ELSE <<>>) \o DefaultPaths

InitStartup ==
    /\ tool \in Tools
    /\ args \in ArgsOf(tool)
    /\ files \in [{ServicesPath, GivenPath, PresetPath} \cup Range(DefaultPaths) -> FileStates]
    \* a path that is not on the command line is not looked at
    /\ args.config = None => files[GivenPath] = "missing"
    /\ (args.preset = None \/ args.config # None) => files[PresetPath] = "missing"
    /\ startup_pc = "load_services_config"
    /\ config_paths = <<>>
    /\ n_path = 1
    /\ loaded_from = None
    /\ exit_code = None
    /\ encountered = {}
    /\ ManagerIdle
    /\ AnalyzerIdle
    /\ ResolverIdle
    /\ OthersIdle

\* sys.exit(status)
Exit(status) == /\ exit_code' = status /\ startup_pc' = "exited"

\* load_services_config: a missing or unparseable services.yaml ends the process
\* with status 1; then load_config builds its candidate list.
LoadServicesConfig ==
    /\ startup_pc = "load_services_config"
    /\ IF files[ServicesPath] = "ok"
       THEN /\ startup_pc' = "load_config"
            /\ config_paths' = CandidatePaths(tool, args)
            /\ UNCHANGED <<exit_code, encountered>>
       ELSE /\ Exit(1)
            /\ encountered' = encountered \cup {ServicesPath}
            /\ UNCHANGED config_paths
    /\ UNCHANGED <<tool, files, args, n_path, loaded_from, beyond_startup>>

\* One turn of "for path in config_paths": a path that does not exist is passed
\* over, an unparseable one is reported and passed over, the first that parses
\* is loaded and ends the loop.  Of what git-multi-push.py loads into
\* self.config, main reads migration.dry_run_by_default (False when absent).
LoadConfigPath ==
    /\ startup_pc = "load_config"
    /\ n_path <= Len(config_paths)
    /\ IF files[config_paths[n_path]] = "ok"
       THEN /\ loaded_from' = config_paths[n_path]
            /\ startup_pc' = "setup_logging"
            /\ IF tool = "git-multi-push"
               THEN \E by_default \in BOOLEAN :
                      config' = [migration |-> [dry_run_by_default |-> by_default]]
               ELSE UNCHANGED config
            /\ UNCHANGED <<n_path, encountered>>
       ELSE /\ n_path' = n_path + 1
            /\ encountered' = encountered \cup {config_paths[n_path]}
            /\ UNCHANGED <<loaded_from, startup_pc, config>>
    /\ UNCHANGED <<tool, files, args, config_paths, exit_code, dry_run, after_startup>>

\* "if not config_loaded": git-multi-push.py exits with status 1, the analyzer
\* goes on with a minimal configuration of its own.
LoadConfigNone ==
    /\ startup_pc = "load_config"
    /\ n_path > Len(config_paths)
    /\ IF tool = "git-multi-push"
       THEN Exit(1)
       ELSE startup_pc' = "setup_logging" /\ UNCHANGED exit_code
    /\ UNCHANGED <<tool, files, args, config_paths, n_path, loaded_from, encountered,
                   beyond_startup>>

\* main's decision with --force cancelling --dry-run as well.
determine_dry_run_ForceWins(a, cfg) ==
    (a.dry_run \/ cfg.migration.dry_run_by_default) /\ ~a.force

\* dry_run = args.dry_run or (config...get('dry_run_by_default', False) and not args.force)
determine_dry_run(a, cfg) ==
    a.dry_run \/ (cfg.migration.dry_run_by_default /\ ~a.force)

\* setup_logging, the choice of the repositories, and the call of
\* process_repositories(repo_paths, dry_run) or analyze_repositories.
StartProcessing ==
    /\ startup_pc = "setup_logging"
    /\ startup_pc' = "processing"
    /\ dry_run' = IF tool = "git-multi-push" THEN determine_dry_run(args, config) ELSE dry_run
    /\ UNCHANGED <<tool, files, args, config_paths, n_path, loaded_from, exit_code,
                   encountered, config, after_startup>>

NextStartup ==
    \/ LoadServicesConfig
    \/ LoadConfigPath
    \/ LoadConfigNone
    \/ StartProcessing

SpecStartup == InitStartup /\ [][NextStartup]_vars

\* C12: once a missing or unparseable services.yaml or user configuration file
\* has been met, the tool exits with a non-zero status and no repository is
\* processed or analysed.
C12_BadFileTerminates ==
    /\ startup_pc = "processing" => encountered = {}
    /\ (encountered # {} /\ startup_pc \notin {"load_services_config", "load_config"}) =>
          /\ startup_pc = "exited"
          /\ exit_code = 1

\* C27: the run is a dry run iff --dry-run is given, or the configuration's
\* migration.dry_run_by_default is true and --force is not given; --force only
\* cancels the configured default, so --dry-run with --force is a dry run.
C27_DryRunDecision ==
    (startup_pc = "processing" /\ tool = "git-multi-push") =>
        /\ dry_run <=> (args.dry_run \/ (config.migration.dry_run_by_default /\ ~args.force))
        /\ (args.dry_run /\ args.force) => dry_run
        /\ (~args.dry_run /\ args.force) => ~dry_run

\* process_repositories is called as a dry run although --force was given.
C27_Witness ==
    /\ startup_pc = "processing"
    /\ tool = "git-multi-push"
    /\ args.dry_run /\ args.force
    /\ dry_run

(***************************************************************************)
(* detect_service_from_url, as each tool has it.                           *)
(***************************************************************************)
\* for service_id, service_config in self.services_config['services'].items():
\* the id of the first entry, from position n on, whose domain has no
\* {custom_domain} and is a substring of the URL; None when there is none.
RECURSIVE CatalogMatch(_, _, _)
CatalogMatch(services, u, n) ==
    IF n > Len(services) THEN None
    ELSE IF Contains(services[n].domain, "{custom_domain}") THEN CatalogMatch(services, u, n + 1)
    ELSE IF Contains(u, services[n].domain) THEN services[n].id
    ELSE CatalogMatch(services, u, n + 1)

\* git-multi-push.py: None for an empty URL and for a URL no entry matches.
detect_service_from_url(services, u) ==
    IF Falsy(u) THEN None ELSE CatalogMatch(services, u, 1)

\* analyze-git-repos.py's "common patterns not in services.yaml", in the order
\* of its if/elif chain.
CommonPatterns ==
    << [pattern |-> "github.com", id |-> "github"],
       [pattern |-> "gitlab.com", id |-> "gitlab"],
       [pattern |-> "bitbucket.org", id |-> "bitbucket"],
       [pattern |-> "codeberg.org", id |-> "codeberg"],
       [pattern |-> "keybase://", id |-> "keybase"] >>

RECURSIVE PatternMatch(_, _)
PatternMatch(u, n) ==
    IF n > Len(CommonPatterns) THEN "unknown"
    ELSE IF Contains(u, CommonPatterns[n].pattern) THEN CommonPatterns[n].id
    ELSE PatternMatch(u, n + 1)

\* analyze-git-repos.py: None for an empty URL only.
analyzer_detect_service_from_url(services, u) ==
    IF Falsy(u) THEN None
    ELSE IF CatalogMatch(services, u, 1) # None THEN CatalogMatch(services, u, 1)
    ELSE PatternMatch(u, 1)

(***************************************************************************)
(* analyze-git-repos.py: get_remotes and classify_repository for one       *)
(* repository, as analyze_repository calls them.  classify_repository      *)
(* is an operation of its own and may be called again on the same analysis.*)
(***************************************************************************)
\* Most calls of classify_repository on one analysis.
MaxClassify == 2

\* Every service id detect_service_from_url can return or a target can name, in
\* the two orders a set of them is iterated in.
HashOrders ==
    << <<"alpha", "beta", "gamma", "github", "gitlab", "bitbucket", "codeberg", "keybase",
         "unknown">>,
       <<"unknown", "keybase", "codeberg", "bitbucket", "gitlab", "github", "gamma", "beta",
         "alpha">> >>

\* list(a_set), and the order of "for x in a_set".
RECURSIVE InOrder(_, _)
InOrder(set, order) ==
    IF order = <<>> THEN <<>>
    ELSE (IF order[1] \in set THEN <<order[1]>> ELSE <<>>) \o InOrder(set, Tail(order))

ListOfSet(set) == InOrder(set, HashOrders[hashseed])

\* ', '.join(strings)
RECURSIVE Join(_)
Join(strings) ==
    IF strings = <<>> THEN ""
    ELSE IF Len(strings) = 1 THEN strings[1]
    ELSE strings[1] \o ", " \o Join(Tail(strings))

\* "git remote" lists the remotes by name.
RemoteNameOrder == <<"backup", "origin", "upstream">>

UrlAlpha == "https://alpha.example/alice/x.git"

UrlGamma == "https://gamma.example/alice/x"

UrlGithub == "git@github.com:alice/x.git"

UrlSelfHosted == "https://git.beta.example/alice/x.git"

\* What one remote can be: url and pushurl of its section in .git/config.
RemoteShapes ==
    { [url |-> <<UrlAlpha>>, pushurl |-> <<>>],
      [url |-> <<UrlAlpha>>, pushurl |-> <<UrlAlpha, UrlGamma>>],
      [url |-> <<UrlGamma>>, pushurl |-> <<UrlGamma, UrlAlpha>>],
      [url |-> <<UrlGithub>>, pushurl |-> <<UrlSelfHosted>>] }

\* self.config.get('multi_push', {}): absent keys read as None and as [].
Targets ==
    { [primary_service |-> None, push_services |-> <<>>],
      [primary_service |-> "alpha", push_services |-> <<"alpha">>],
      [primary_service |-> "alpha", push_services |-> <<"alpha", "beta", "gamma">>],
      [primary_service |-> "gamma", push_services |-> <<"alpha", "gamma">>],
      [primary_service |-> "alpha", push_services |-> <<"alpha", "gamma", "github">>],
      [primary_service |-> None, push_services |-> <<"alpha", "gamma">>] }

InitAnalyzer ==
    /\ analyzer_config \in Targets
    /\ hashseed \in 1..Len(HashOrders)
    /\ \E names \in SUBSET Range(RemoteNameOrder) : git_remotes \in [names -> RemoteShapes]
    /\ services_config = ServicesCatalog
    /\ remote_names = <<>>
    /\ analysis = [remotes |-> <<>>, classification |-> None]
    /\ classification = <<>>
    /\ analyzer_pc = "get_remotes"
    /\ n_remote = 1
    /\ classified = <<>>
    /\ read_faults = 0
    /\ url_arg = None
    /\ resolved = <<>>
    /\ ManagerIdle
    /\ StartupIdle
    /\ OthersIdle

\* What the analysis never touches.
beyond_analyzer == <<managervars, startupvars, resolvervars, othervars>>

\* Whether a git query succeeds: it may fail while the budget of faults lasts.
QueryOutcomes == {TRUE} \cup (IF read_faults < MaxFaults THEN {FALSE} ELSE {})

\* get_remotes: remote_names = self.run_git_command(repo_path, ['remote']);
\* "if not remote_names: return remotes".
GetRemoteNames ==
    /\ analyzer_pc = "get_remotes"
    /\ \E ok \in QueryOutcomes :
         /\ read_faults' = read_faults + (IF ok THEN 0 ELSE 1)
         /\ remote_names' = IF ok THEN SelectSeq(RemoteNameOrder,
                                                 LAMBDA r : r \in DOMAIN git_remotes)
                            ELSE <<>>
         /\ analyzer_pc' = IF remote_names' = <<>> THEN "classify" ELSE "get_remote"
    /\ UNCHANGED <<analyzer_config, hashseed, git_remotes, analysis, classification, n_remote,
                   classified, beyond_analyzer>>

\* The record get_remotes builds for one remote; a failed query leaves fetch_url
\* None or push_urls empty.
RemoteRecord(name, fetch_ok, push_ok) ==
    LET fetch_url == IF fetch_ok THEN git_remotes[name].url[1] ELSE None
        remote_push_urls == IF push_ok THEN GitPushUrls(git_remotes, name) ELSE <<>>
    IN  [name |-> name,
         fetch_url |-> fetch_url,
         push_urls |-> remote_push_urls,
         fetch_service |-> analyzer_detect_service_from_url(services_config, fetch_url),
         push_services |-> [m \in 1..Len(remote_push_urls) |->
                              analyzer_detect_service_from_url(services_config,
                                                               remote_push_urls[m])]]

\* One turn of "for remote_name in remote_names.split('\n')".
GetRemote ==
    /\ analyzer_pc = "get_remote"
    /\ \E fetch_ok \in QueryOutcomes, push_ok \in QueryOutcomes :
         /\ (fetch_ok \/ push_ok \/ read_faults + 2 <= MaxFaults)
         /\ read_faults' = read_faults + (IF fetch_ok THEN 0 ELSE 1) + (IF push_ok THEN 0 ELSE 1)
         /\ analysis' = [analysis EXCEPT !.remotes =
                            Append(@, RemoteRecord(remote_names[n_remote], fetch_ok, push_ok))]
    /\ IF n_remote = Len(remote_names)
       THEN analyzer_pc' = "classify" /\ n_remote' = 1
       ELSE n_remote' = n_remote + 1 /\ UNCHANGED analyzer_pc
    /\ UNCHANGED <<analyzer_config, hashseed, git_remotes, remote_names, classification,
                   classified, beyond_analyzer>>

\* classify_repository with the dict of an earlier call kept.
ClassifyStart_Reuse ==
    /\ analyzer_pc = "classify"
    /\ classification' =
          IF classified = <<>>
          THEN [current_services |-> {}, has_multi_push |-> FALSE, primary_service |-> None,
                needs_migration |-> FALSE, migration_complexity |-> "simple",
                recommendations |-> <<>>]
          ELSE classification
    /\ n_remote' = 1
    /\ analyzer_pc' = "classify_remote"
    /\ UNCHANGED <<analyzer_config, hashseed, git_remotes, remote_names, analysis, classified,
                   read_faults, beyond_analyzer>>

\* classify_repository: classification = {...}; remotes = analysis.get('remotes', {})
ClassifyStart ==
    /\ analyzer_pc = "classify"
    /\ classification' =
          [current_services |-> {}, has_multi_push |-> FALSE, primary_service |-> None,
           needs_migration |-> FALSE, migration_complexity |-> "simple",
           recommendations |-> <<>>]
    /\ n_remote' = 1
    /\ analyzer_pc' = "classify_remote"
    /\ UNCHANGED <<analyzer_config, hashseed, git_remotes, remote_names, analysis, classified,
                   read_faults, beyond_analyzer>>

\* Truthy members of a list of service ids.
Truthy(services) == {services[m] : m \in 1..Len(services)} \ {None, ""}

\* ClassifyRemote with any remote's fetch service taken as the primary.
ClassifyRemote_AnyRemote ==
    /\ analyzer_pc = "classify_remote"
    /\ n_remote <= Len(analysis.remotes)
    /\ LET remote_info == analysis.remotes[n_remote]
       IN  classification' =
              [classification EXCEPT
                 !.current_services = @ \cup Truthy(<<remote_info.fetch_service>>)
                                        \cup Truthy(remote_info.push_services),
                 !.has_multi_push = @ \/ Len(remote_info.push_urls) > 1,
                 !.primary_service =
                     IF ~Falsy(remote_info.fetch_service)
                     THEN remote_info.fetch_service ELSE @]
    /\ n_remote' = n_remote + 1
    /\ UNCHANGED <<analyzer_config, hashseed, git_remotes, remote_names, analysis, analyzer_pc,
                   classified, read_faults, beyond_analyzer>>

\* ClassifyRemote with a single push URL counted as multi-push.
ClassifyRemote_AnyPush ==
    /\ analyzer_pc = "classify_remote"
    /\ n_remote <= Len(analysis.remotes)
    /\ LET remote_info == analysis.remotes[n_remote]
       IN  classification' =
              [classification EXCEPT
                 !.current_services = @ \cup Truthy(<<remote_info.fetch_service>>)
                                        \cup Truthy(remote_info.push_services),
                 !.has_multi_push = @ \/ Len(remote_info.push_urls) >= 1,
                 !.primary_service =
                     IF remote_info.name = "origin" /\ ~Falsy(remote_info.fetch_service)
                     THEN remote_info.fetch_service ELSE @]
    /\ n_remote' = n_remote + 1
    /\ UNCHANGED <<analyzer_config, hashseed, git_remotes, remote_names, analysis, analyzer_pc,
                   classified, read_faults, beyond_analyzer>>

\* One turn of "for remote_name, remote_info in remotes.items()".
ClassifyRemote ==
    /\ analyzer_pc = "classify_remote"
    /\ n_remote <= Len(analysis.remotes)
    /\ LET remote_info == analysis.remotes[n_remote]
       IN  classification' =
              [classification EXCEPT
                 !.current_services = @ \cup Truthy(<<remote_info.fetch_service>>)
                                        \cup Truthy(remote_info.push_services),
                 !.has_multi_push = @ \/ Len(remote_info.push_urls) > 1,
                 !.primary_service =
                     IF remote_info.name = "origin" /\ ~Falsy(remote_info.fetch_service)
                     THEN remote_info.fetch_service ELSE @]
    /\ n_remote' = n_remote + 1
    /\ UNCHANGED <<analyzer_config, hashseed, git_remotes, remote_names, analysis, analyzer_pc,
                   classified, read_faults, beyond_analyzer>>

\* target_services = set(self.config.get('multi_push', {}).get('push_services', []))
target_services == Range(analyzer_config.push_services)

\* target_primary = self.config.get('multi_push', {}).get('primary_service')
target_primary == analyzer_config.primary_service

\* target_services - classification['current_services']
missing_services == target_services \ classification.current_services

\* migration_complexity with a single missing service counted as complex.
migration_complexity_OneIsComplex ==
    IF Cardinality(missing_services) >= 1 THEN "complex"
    ELSE IF classification.primary_service # target_primary THEN "medium"
    ELSE classification.migration_complexity

migration_complexity ==
    IF Cardinality(missing_services) >= 2 THEN "complex"
    ELSE IF classification.primary_service # target_primary THEN "medium"
    ELSE classification.migration_complexity

\* ClassifyTarget that asks for migration only when a service is missing.
ClassifyTarget_MissingOnly ==
    /\ analyzer_pc = "classify_remote"
    /\ n_remote > Len(analysis.remotes)
    /\ classification' =
          IF target_services # {}
          THEN LET needs_migration == missing_services # {}
               IN  [classification EXCEPT
                      !.needs_migration = needs_migration,
                      !.migration_complexity = IF needs_migration THEN migration_complexity
                                               ELSE @]
          ELSE IF ~classification.has_multi_push
               THEN [classification EXCEPT
                       !.needs_migration = TRUE,
                       !.recommendations = Append(@, "Configure multi-push for redundancy")]
               ELSE classification
    /\ analyzer_pc' = "classify_recommend"
    /\ UNCHANGED <<analyzer_config, hashseed, git_remotes, remote_names, analysis, n_remote,
                   classified, read_faults, beyond_analyzer>>

\* ClassifyTarget with the complexity set whether or not migration is needed.
ClassifyTarget_Always ==
    /\ analyzer_pc = "classify_remote"
    /\ n_remote > Len(analysis.remotes)
    /\ classification' =
          IF target_services # {}
          THEN [classification EXCEPT
                  !.needs_migration = missing_services # {} \/ ~classification.has_multi_push,
                  !.migration_complexity = migration_complexity]
          ELSE IF ~classification.has_multi_push
               THEN [classification EXCEPT
                       !.needs_migration = TRUE,
                       !.recommendations = Append(@, "Configure multi-push for redundancy")]
               ELSE classification
    /\ analyzer_pc' = "classify_recommend"
    /\ UNCHANGED <<analyzer_config, hashseed, git_remotes, remote_names, analysis, n_remote,
                   classified, read_faults, beyond_analyzer>>

\* "Determine if migration is needed".
ClassifyTarget ==
    /\ analyzer_pc = "classify_remote"
    /\ n_remote > Len(analysis.remotes)
    /\ classification' =
          IF target_services # {}
          THEN LET needs_migration == missing_services # {} \/ ~classification.has_multi_push
               IN  [classification EXCEPT
                      !.needs_migration = needs_migration,
                      !.migration_complexity = IF needs_migration THEN migration_complexity
                                               ELSE @]
          ELSE IF ~classification.has_multi_push
               THEN [classification EXCEPT
                       !.needs_migration = TRUE,
                       !.recommendations = Append(@, "Configure multi-push for redundancy")]
               ELSE classification
    /\ analyzer_pc' = "classify_recommend"
    /\ UNCHANGED <<analyzer_config, hashseed, git_remotes, remote_names, analysis, n_remote,
                   classified, read_faults, beyond_analyzer>>

\* The recommendations without the multi-push line.
recommendations_NoSetUp ==
    classification.recommendations
    \o (IF classification.needs_migration /\ target_services # {} /\ missing_services # {}
        THEN <<"Add services: " \o Join(ListOfSet(missing_services))>> ELSE <<>>)

\* "Generate recommendations".
recommendations ==
    classification.recommendations
    \o (IF classification.needs_migration /\ ~classification.has_multi_push
        THEN <<"Set up multi-push to multiple services">> ELSE <<>>)
    \o (IF classification.needs_migration /\ target_services # {} /\ missing_services # {}
        THEN <<"Add services: " \o Join(ListOfSet(missing_services))>> ELSE <<>>)

\* The recommendations, classification['current_services'] = list(...), and
\* the return; analyze_repository keeps the result in analysis['classification'].
ClassifyReturn ==
    /\ analyzer_pc = "classify_recommend"
    /\ LET returned == [classification EXCEPT
                          !.recommendations = recommendations,
                          !.current_services = ListOfSet(@)]
       IN  /\ classified' = Append(classified, returned)
           /\ analysis' = IF classified = <<>>
                          THEN [analysis EXCEPT !.classification = returned]
                          ELSE analysis
    /\ analyzer_pc' = "analyzed"
    /\ UNCHANGED <<analyzer_config, hashseed, git_remotes, remote_names, classification,
                   n_remote, read_faults, beyond_analyzer>>

\* classify_repository is called once more on the same analysis.
ClassifyAgain ==
    /\ analyzer_pc = "analyzed"
    /\ Len(classified) < MaxClassify
    /\ analyzer_pc' = "classify"
    /\ UNCHANGED <<analyzer_config, hashseed, git_remotes, remote_names, analysis,
                   classification, n_remote, classified, read_faults, beyond_analyzer>>

NextAnalyzer ==
    \/ GetRemoteNames
    \/ GetRemote
    \/ ClassifyStart
    \/ ClassifyRemote
    \/ ClassifyTarget
    \/ ClassifyReturn
    \/ ClassifyAgain

SpecAnalyzer == InitAnalyzer /\ [][NextAnalyzer]_vars

(***************************************************************************)
(* Properties of the analysis.  They are stated over the records           *)
(* get_remotes built and the classifications classify_repository returned. *)
(***************************************************************************)
\* The recommendation lines of classify_repository.
SetUpMultiPush == "Set up multi-push to multiple services"

ConfigureMultiPush == "Configure multi-push for redundancy"

\* Every call of classify_repository made so far has returned.
AllReturned == analyzer_pc = "analyzed"

\* C13: a repository with no remotes, under the target primary_service = alpha,
\* push_services = [alpha], is classified as needing migration, of simple
\* complexity, with the "set up multi-push to multiple services" recommendation.
C13_NoRemotesSimple ==
    (DOMAIN git_remotes = {}
        /\ analyzer_config = [primary_service |-> "alpha", push_services |-> <<"alpha">>]) =>
        \A c \in Range(classified) :
            /\ c.needs_migration
            /\ c.migration_complexity = "simple"
            /\ SetUpMultiPush \in Range(c.recommendations)

\* The service ids get_remotes resolved, over all remotes, fetch and push.
ObservedServices ==
    UNION {{r.fetch_service} \cup Range(r.push_services) : r \in Range(analysis.remotes)}
        \ {None}

\* Some remote has more than one push URL.
HasMultiPush == \E r \in Range(analysis.remotes) : Len(r.push_urls) > 1

\* The target's push services not among the resolved ones.
Missing == Range(analyzer_config.push_services) \ ObservedServices

TargetSet == analyzer_config.push_services # <<>>

\* The complexity rule as the specification words it.
RuleComplexity(c) ==
    IF Cardinality(Missing) >= 2 THEN "complex"
    ELSE IF c.primary_service # analyzer_config.primary_service THEN "medium"
    ELSE "simple"

\* C14 as stated: under a target with push services the complexity follows the
\* rule complex / medium / simple, whether or not migration is needed.
C14_RuleAlways ==
    TargetSet => \A c \in Range(classified) : c.migration_complexity = RuleComplexity(c)

\* C14, amended: the rule decides the complexity only when migration is needed;
\* a repository that needs none, and every repository when no target is
\* configured, is simple.
C14_RuleWhenNeeded ==
    \A c \in Range(classified) :
        c.migration_complexity =
            IF TargetSet /\ c.needs_migration THEN RuleComplexity(c) ELSE "simple"

\* A repository that needs no migration and whose primary is not the target's.
C14_Witness ==
    /\ AllReturned
    /\ TargetSet
    /\ classified # <<>>
    /\ ~classified[1].needs_migration
    /\ classified[1].primary_service = "alpha"
    /\ analyzer_config.primary_service = "gamma"
    /\ classified[1].migration_complexity = "simple"

\* C15: has_multi_push is true iff some remote has more than one push URL;
\* needs_migration is (missing non-empty or not has_multi_push) under a target
\* with push services, and not has_multi_push when no target is configured,
\* missing being the target's push services minus every resolved fetch and push
\* service id.
C15_NeedsMigration ==
    \A c \in Range(classified) :
        /\ c.has_multi_push = HasMultiPush
        /\ Range(c.current_services) = ObservedServices
        /\ c.needs_migration = IF TargetSet THEN Missing # {} \/ ~HasMultiPush
                               ELSE ~HasMultiPush

\* Nothing is missing, yet migration is needed for want of a multi-push remote.
C15_Witness ==
    /\ AllReturned
    /\ TargetSet
    /\ classified # <<>>
    /\ Missing = {}
    /\ ~HasMultiPush
    /\ analysis.remotes # <<>>
    /\ classified[1].needs_migration

\* The fetch service of the remote named origin; None without such a remote or
\* when its fetch URL could not be read.
OriginFetchService ==
    IF \E r \in Range(analysis.remotes) : r.name = "origin"
    THEN (CHOOSE r \in Range(analysis.remotes) : r.name = "origin").fetch_service
    ELSE None

\* C16: with exactly one target push service missing, the complexity is medium
\* if the origin's fetch service differs from the target's primary service and
\* simple otherwise; it is never complex.
C16_OneMissing ==
    (TargetSet /\ Cardinality(Missing) = 1) =>
        \A c \in Range(classified) :
            /\ c.needs_migration
            /\ c.migration_complexity # "complex"
            /\ c.migration_complexity =
                  IF OriginFetchService # analyzer_config.primary_service
                  THEN "medium" ELSE "simple"

\* Origin fetches from gamma and pushes to gamma and alpha, two of the three
\* target services; the target's primary is alpha.
C16_Witness ==
    /\ AllReturned
    /\ classified # <<>>
    /\ analyzer_config = [primary_service |-> "alpha",
                          push_services |-> <<"alpha", "beta", "gamma">>]
    /\ Missing = {"beta"}
    /\ \E r \in Range(analysis.remotes) :
          /\ r.name = "origin"
          /\ r.fetch_service = "gamma"
          /\ r.push_services = <<"gamma", "alpha">>
    /\ classified[1].migration_complexity = "medium"

\* C17: when no remote is named origin, the classification's primary_service is
\* null, whatever the other remotes fetch from and whatever the target.
C17_NoOriginNoPrimary ==
    (\A r \in Range(analysis.remotes) : r.name # "origin") =>
        \A c \in Range(classified) : c.primary_service = None

\* Two remotes with resolved fetch services, neither of them origin.
C17_Witness ==
    /\ AllReturned
    /\ classified # <<>>
    /\ Len(analysis.remotes) = 2
    /\ \A r \in Range(analysis.remotes) : r.name # "origin" /\ r.fetch_service # None
    /\ TargetSet
    /\ classified[1].primary_service = None

\* The ways of listing a set.
Orderings(set) ==
    {seq \in [1..Cardinality(set) -> set] : \A a, b \in DOMAIN seq : seq[a] = seq[b] => a = b}

\* The lines that name the missing services, in any order.
MissingLines == {"Add services: " \o Join(seq) : seq \in Orderings(Missing)}

\* C18: recommendations are appended in a fixed order and nothing is dropped:
\* first the generic line of the no-target case, then the multi-push line when
\* migration is needed and no remote is multi-push, then a line naming the
\* missing services when there are any.
C18_RecommendationsAppended ==
    \A c \in Range(classified) :
        \E tail \in IF Missing # {} THEN {<<line>> : line \in MissingLines} ELSE {<<>>} :
            c.recommendations =
                (IF ~TargetSet /\ ~c.has_multi_push THEN <<ConfigureMultiPush>> ELSE <<>>)
                \o (IF c.needs_migration /\ ~c.has_multi_push THEN <<SetUpMultiPush>> ELSE <<>>)
                \o tail

\* Two services missing and no multi-push remote: both lines, in this order.
C18_Witness ==
    /\ AllReturned
    /\ classified # <<>>
    /\ Missing = {"beta", "gamma"}
    /\ analysis.remotes # <<>>
    /\ classified[1].recommendations = <<SetUpMultiPush, "Add services: gamma, beta">>

\* classify_repository is running.
Classifying == analyzer_pc \in {"classify", "classify_remote", "classify_recommend"}

\* C19: classify_repository called again on the same remotes and target returns
\* the same classification, and no call changes the remotes or the target it
\* was given.
C19_ClassifyIdempotent ==
    /\ [](\A a, b \in 1..Len(classified) : classified[a] = classified[b])
    /\ [][Classifying => /\ analysis'.remotes = analysis.remotes
                         /\ analyzer_config' = analyzer_config]_vars

\* A second call has returned, on an analysis that holds the first call's
\* result with its recommendations.
C19_Witness ==
    /\ AllReturned
    /\ Len(classified) = 2
    /\ classified[1].recommendations # <<>>
    /\ classified[1].current_services # <<>>
    /\ analysis.classification = classified[1]

(***************************************************************************)
(* detect_service_from_url of both tools, applied to one URL under one     *)
(* catalog.                                                                *)
(***************************************************************************)
Reverse(seq) == [n \in 1..Len(seq) |-> seq[Len(seq) + 1 - n]]

\* The catalogs tried: the catalog, the same in reverse declaration order, and
\* the catalog followed by an entry for a host of the analyzer's common patterns.
Catalogs ==
    { ServicesCatalog,
      Reverse(ServicesCatalog),
      Append(ServicesCatalog, [EmptyService EXCEPT !.id = "hub", !.domain = "github.com"]) }

\* The URLs tried: none, empty, of a catalog service, of a self-hosted service, of
\* each common host, holding two catalog domains, holding two common patterns,
\* and a local path.
Urls ==
    { None, "", UrlAlpha, UrlGamma, UrlSelfHosted, UrlGithub,
      "https://gitlab.com/alice/x.git", "https://bitbucket.org/alice/x.git",
      "https://codeberg.org/alice/x.git", "keybase://private/alice/x",
      "https://gamma.example/mirror/alpha.example-x.git",
      "https://gitlab.com/alice/github.com-x.git",
      "/srv/git/x.git" }

InitResolver ==
    /\ services_config \in Catalogs
    /\ url_arg \in Urls
    /\ resolved = <<>>
    /\ ManagerIdle
    /\ StartupIdle
    /\ AnalyzerIdle
    /\ OthersIdle

\* What a resolution never touches.
beyond_resolver == <<managervars, startupvars, analyzervars, othervars>>

\* GitMultiPushManager.detect_service_from_url(url)
ResolveManager ==
    /\ "git-multi-push" \notin DOMAIN resolved
    /\ resolved' = resolved @@
          ("git-multi-push" :> detect_service_from_url(services_config, url_arg))
    /\ UNCHANGED <<services_config, url_arg, beyond_resolver>>

\* GitRepositoryAnalyzer.detect_service_from_url(url)
ResolveAnalyzer ==
    /\ "analyze-git-repos" \notin DOMAIN resolved
    /\ resolved' = resolved @@
          ("analyze-git-repos" :> analyzer_detect_service_from_url(services_config, url_arg))
    /\ UNCHANGED <<services_config, url_arg, beyond_resolver>>

NextResolver ==
    \/ ResolveManager
    \/ ResolveAnalyzer

SpecResolver == InitResolver /\ [][NextResolver]_vars

\* Positions of the catalog entries a URL matches: the domain has no
\* {custom_domain} placeholder and is a substring of the URL.
Matching(services, u) ==
    {n \in 1..Len(services) : /\ ~Contains(services[n].domain, "{custom_domain}")
                              /\ Contains(u, services[n].domain)}

\* Positions of the fallback table's hosts a URL holds.
WellKnown(u) == {n \in 1..Len(CommonPatterns) : Contains(u, CommonPatterns[n].pattern)}

Least(set) == CHOOSE n \in set : \A m \in set : n <= m

\* resolve(url) as the specification words it.
Resolve(services, u) ==
    IF u = None \/ u = "" THEN None
    ELSE IF Matching(services, u) # {} THEN services[Least(Matching(services, u))].id
    ELSE IF WellKnown(u) # {} THEN CommonPatterns[Least(WellKnown(u))].id
    ELSE "unknown"

\* C20: every implementation of resolve returns null only for an empty or
\* missing URL, else the first matching catalog entry in declaration order,
\* else the fallback table's id, else "unknown".
C20_EveryResolve ==
    \A impl \in DOMAIN resolved : resolved[impl] = Resolve(services_config, url_arg)

\* C25: whenever configure_multi_push returns failure for a repository, no
\* mutating git command has been issued for it and its remotes, "origin"
\* included, are what they were before the call, for every target configuration.
C25_FailureLeavesRemotes ==
    (Returned /\ ret = "False") =>
        /\ issued = <<>>
        /\ remotes[repo_path] = remotes0[repo_path]

\* C28: in every classification returned, needs_migration = false implies
\* has_multi_push = true, migration_complexity = simple and no recommendation;
\* migration_complexity is always one of simple, medium, complex.
C28_NoMigrationIsSimple ==
    \A c \in Range(classified) :
        /\ c.migration_complexity \in {"simple", "medium", "complex"}
        /\ ~c.needs_migration =>
              /\ c.has_multi_push
              /\ c.migration_complexity = "simple"
              /\ c.recommendations = <<>>

\* A repository with two services and a multi-push remote needed no migration.
C28_Witness ==
    /\ AllReturned
    /\ Len(classified) = MaxClassify
    /\ ~classified[1].needs_migration
    /\ classified[1].has_multi_push
    /\ classified[1].recommendations = <<>>
    /\ Cardinality(Range(classified[1].current_services)) >= 2

(***************************************************************************)
(* generate_service_url on its own: one user configuration, one            *)
(* environment and one service id, rendered with auth and without.         *)
(***************************************************************************)
\* The per-service sections a user configuration can hold for one service.
UserSections ==
    [username : {None, "bob"}, auth_method : {None, "token", "ssh"},
     custom_domain : {None, "git.beta.example"}]

\* A token variable that is set, but to the empty string.
TokenEmpty == [v \in {"ALPHA_TOKEN"} |-> ""]

\* The service ids asked for; "delta" is in no catalog.
ServiceIds == {"alpha", "beta", "gamma", "delta"}

\* The repository name of every rendered URL.
RenderRepo == "x"

InitRender ==
    /\ render_service \in ServiceIds
    /\ render_environ \in {TokenSet, TokenUnset, TokenEmpty}
    /\ \E name \in {None, "alice"} :
         \/ render_config = [user |-> [username |-> name],
                             services |-> [s \in {} |-> NoUserService]]
         \/ \E section \in UserSections :
              render_config = [user |-> [username |-> name],
                               services |-> [s \in {render_service} |-> section]]
    /\ rendered = <<>>
    /\ ManagerIdle
    /\ StartupIdle
    /\ AnalyzerIdle
    /\ ResolverIdle
    /\ SummaryIdle
    /\ TelegramIdle
    /\ GeoIdle

\* What a rendering never touches.
beyond_render == <<managervars, startupvars, analyzervars, resolvervars, summaryvars,
                   telegramvars, geovars>>

\* One call generate_service_url(service_id, repo_name, auth): what it returns,
\* with the local "template" it reached (None if it raised before choosing).
RenderCall(auth) ==
    /\ render_service # None
    /\ auth \notin DOMAIN rendered
    /\ LET returned == generate_service_url(render_config, render_environ, render_service,
                                            RenderRepo, auth)
           chose == returned.error \notin {"No username configured", "Custom domain required"}
           template == IF chose
                       THEN ChooseTemplate(CatalogGet(render_service),
                                           UserServiceGet(render_config, render_service),
                                           render_environ, auth).template
                       ELSE None
       IN rendered' = (auth :> [ok |-> returned.ok, url |-> returned.url,
                                error |-> returned.error, warned |-> returned.warned,
                                template |-> template]) @@ rendered
    /\ UNCHANGED <<render_config, render_environ, render_service, beyond_render>>

RenderWithAuth == RenderCall(TRUE)

RenderWithoutAuth == RenderCall(FALSE)

NextRender == RenderWithAuth \/ RenderWithoutAuth

SpecRender == InitRender /\ [][NextRender]_vars

(***************************************************************************)
(* The contract of render, stated on what the two calls returned.          *)
(***************************************************************************)
BothRendered == DOMAIN rendered = BOOLEAN

\* The user's section for the rendered service, if there is one.
HasSection == render_service \in DOMAIN render_config.services

Section == render_config.services[render_service]

\* The catalog entries of the rendered service (none for an unknown id).
Entries == {n \in 1..Len(ServicesCatalog) : ServicesCatalog[n].id = render_service}

Entry == ServicesCatalog[CHOOSE n \in Entries : TRUE]

TokenMethod == HasSection /\ Section.auth_method = "token"

\* The token is available: the entry names a variable, set to a non-empty value.
TokenAvailable ==
    /\ Entries # {}
    /\ Entry.token_env_var # None
    /\ Entry.token_env_var \in DOMAIN render_environ
    /\ render_environ[Entry.token_env_var] # ""

\* The checks that precede the choice of a template both pass.
PassedChecks(auth) ==
    rendered[auth].error \notin {"No username configured", "Custom domain required"}

\* C21, as stated: for every service configured with the token auth method
\* whose token variable is unset or empty, render with want_auth returns the
\* URL that render without want_auth returns, and warns instead of failing.
C21_FallbackAlways ==
    (BothRendered /\ TokenMethod /\ ~TokenAvailable) =>
        /\ rendered[TRUE].ok
        /\ rendered[TRUE].url = rendered[FALSE].url
        /\ rendered[TRUE].warned

\* C21, amended: with the token method and no token, render with want_auth
\* ends as render without want_auth ends: with the same URL, or with the same
\* error; it warns exactly when the username and custom-domain checks pass.
C21_Fallback ==
    (BothRendered /\ TokenMethod /\ ~TokenAvailable) =>
        /\ rendered[TRUE].ok = rendered[FALSE].ok
        /\ rendered[TRUE].url = rendered[FALSE].url
        /\ rendered[TRUE].error = rendered[FALSE].error
        /\ rendered[TRUE].warned <=> PassedChecks(TRUE)
        /\ ~rendered[FALSE].warned

\* A token-method service whose variable is set to "" is rendered by both calls.
C21_Witness ==
    /\ BothRendered /\ TokenMethod
    /\ render_environ = TokenEmpty
    /\ render_service = "alpha"
    /\ rendered[TRUE].ok /\ rendered[TRUE].warned
    /\ rendered[TRUE].url = rendered[FALSE].url

\* The configured auth method (None without a section for the service).
Method == IF HasSection THEN Section.auth_method ELSE None

\* A template of the entry; <<>> is a template the entry does not have.
TemplateOf(kind) == IF Entries = {} THEN <<>> ELSE Entry[kind]

\* The template the selection rule prescribes for a call.
Prescribed(auth) ==
    IF auth /\ Method = "token" /\ TokenAvailable THEN TemplateOf("auth_url_template")
    ELSE IF Method = "ssh" THEN TemplateOf("ssh_url_template")
    ELSE TemplateOf("url_template")

\* C22: the template render selects is, in order, the auth-URL template when
\* want_auth is true, the method is "token" and the token is available; the
\* ssh-URL template when the method is "ssh", for both values of want_auth;
\* the plain URL template in every other case.
C22_TemplateSelection ==
    \A auth \in DOMAIN rendered :
        PassedChecks(auth) => rendered[auth].template = Prescribed(auth)

\* A service with the ssh method is rendered from its ssh template by both calls.
C22_Witness ==
    /\ BothRendered
    /\ Method = "ssh"
    /\ rendered[TRUE].ok /\ rendered[FALSE].ok
    /\ rendered[TRUE].template = TemplateOf("ssh_url_template")
    /\ rendered[FALSE].template = TemplateOf("ssh_url_template")

\* No username for the service: none in its own section, none globally.
NoUsername ==
    /\ HasSection => Section.username = None
    /\ render_config.user.username = None

\* The entry's domain needs a custom domain and none is configured.
DomainMissing ==
    /\ Entries # {}
    /\ Contains(Entry.domain, "{custom_domain}")
    /\ HasSection => Section.custom_domain = None

\* C23: render fails with an error and returns no URL when the service id is
\* not in the catalog, when no username is configured for the service in its
\* own section or globally, when the catalog domain holds {custom_domain} and
\* no custom domain is configured, and when the template selected for the call
\* is absent from the catalog entry.
C23_RenderFails ==
    \A auth \in DOMAIN rendered :
        (Entries = {} \/ NoUsername \/ DomainMissing \/ Prescribed(auth) = <<>>) =>
            /\ ~rendered[auth].ok
            /\ rendered[auth].url = None
            /\ rendered[auth].error # None

\* A service id that is in no catalog, with a username, has failed to render.
C23_Witness ==
    /\ BothRendered
    /\ render_service = "delta"
    /\ ~NoUsername
    /\ ~rendered[TRUE].ok /\ ~rendered[FALSE].ok
    /\ rendered[TRUE].error = "No URL template found"

(***************************************************************************)
(* generate_summary: the statistics over a list of analyses, one turn of   *)
(* its loop at a time.  Sizes are in tenths of a megabyte.                 *)
(***************************************************************************)
MaxAnalyses == 3

\* Analyses as analyze_repository returns them: the classification of
\* classify_repository and the size out of get_repo_status.
Analyses ==
    { \* no remote, no target
      [classification |->
         [current_services |-> <<>>, primary_service |-> None, has_multi_push |-> FALSE,
          needs_migration |-> TRUE, migration_complexity |-> "simple",
          recommendations |-> <<"Configure multi-push for redundancy",
                                "Set up multi-push to multiple services">>],
       status |-> [git_size_mb |-> 0]],
      \* no remote, target alpha + gamma
      [classification |->
         [current_services |-> <<>>, primary_service |-> None, has_multi_push |-> FALSE,
          needs_migration |-> TRUE, migration_complexity |-> "complex",
          recommendations |-> <<"Set up multi-push to multiple services",
                                "Add services: alpha, gamma">>],
       status |-> [git_size_mb |-> 1]],
      \* origin on alpha, target alpha + gamma with primary alpha
      [classification |->
         [current_services |-> <<"alpha">>, primary_service |-> "alpha",
          has_multi_push |-> FALSE, needs_migration |-> TRUE,
          migration_complexity |-> "simple",
          recommendations |-> <<"Set up multi-push to multiple services",
                                "Add services: gamma">>],
       status |-> [git_size_mb |-> 12]],
      \* origin pushing to alpha and gamma, target reached
      [classification |->
         [current_services |-> <<"alpha", "gamma">>, primary_service |-> "alpha",
          has_multi_push |-> TRUE, needs_migration |-> FALSE,
          migration_complexity |-> "simple", recommendations |-> <<>>],
       status |-> [git_size_mb |-> 3]],
      \* the same services in the other order, target primary gamma plus github
      [classification |->
         [current_services |-> <<"gamma", "alpha">>, primary_service |-> "alpha",
          has_multi_push |-> TRUE, needs_migration |-> TRUE,
          migration_complexity |-> "medium",
          recommendations |-> <<"Add services: github">>],
       status |-> [git_size_mb |-> 7]],
      \* origin on gamma only, target gamma
      [classification |->
         [current_services |-> <<"gamma">>, primary_service |-> "gamma",
          has_multi_push |-> FALSE, needs_migration |-> TRUE,
          migration_complexity |-> "simple",
          recommendations |-> <<"Set up multi-push to multiple services">>],
       status |-> [git_size_mb |-> 1]] }

InitSummary ==
    /\ \E n \in 0..MaxAnalyses : analyses \in [1..n -> Analyses]
    /\ summary = <<>>
    /\ n_analysis = 1
    /\ summary_pc = "start"
    /\ ManagerIdle
    /\ StartupIdle
    /\ AnalyzerIdle
    /\ ResolverIdle
    /\ RenderIdle
    /\ TelegramIdle
    /\ GeoIdle

\* What a summary never touches.
beyond_summary == <<managervars, startupvars, analyzervars, resolvervars, rendervars,
                    telegramvars, geovars>>

NoCounts == [key \in {} |-> 0]

\* counts[key] = 1 for each key in turn.
RECURSIVE CountKeys_Presence(_, _)
CountKeys_Presence(counts, keys) ==
    IF keys = <<>> THEN counts
    ELSE CountKeys_Presence((Head(keys) :> 1) @@ counts, Tail(keys))

\* for key in keys: counts[key] = counts.get(key, 0) + 1
RECURSIVE CountKeys(_, _)
CountKeys(counts, keys) ==
    IF keys = <<>> THEN counts
    ELSE LET key == Head(keys)
             seen == IF key \in DOMAIN counts THEN counts[key] ELSE 0
         IN CountKeys((key :> seen + 1) @@ counts, Tail(keys))

\* round(x, 1): every git_size_mb is already rounded to one decimal, so the sum
\* is a whole number of tenths and the rounding only removes float noise.
Round1(tenths) == tenths

\* summary = {'total_repositories': len(analyses), ...}
SummaryStart ==
    /\ summary_pc = "start"
    /\ summary' = [total_repositories |-> Len(analyses),
                   services_usage |-> NoCounts,
                   migration_needed |-> 0,
                   has_multi_push |-> 0,
                   complexity_breakdown |->
                       [c \in {"simple", "medium", "complex"} |-> 0],
                   primary_services |-> NoCounts,
                   recommendations_summary |-> NoCounts,
                   total_size_mb |-> 0]
    /\ summary_pc' = "loop"
    /\ UNCHANGED <<analyses, n_analysis, beyond_summary>>

\* One turn of "for analysis in analyses".
SummaryStep ==
    /\ summary_pc = "loop"
    /\ n_analysis <= Len(analyses)
    /\ LET classif == analyses[n_analysis].classification
           status == analyses[n_analysis].status
           complexity == classif.migration_complexity
           primary == classif.primary_service
       IN summary' =
            [summary EXCEPT
               !.services_usage = CountKeys(@, classif.current_services),
               !.migration_needed = IF classif.needs_migration THEN @ + 1 ELSE @,
               !.has_multi_push = IF classif.has_multi_push THEN @ + 1 ELSE @,
               !.complexity_breakdown[complexity] = @ + 1,
               !.primary_services = IF ~Falsy(primary) THEN CountKeys(@, <<primary>>) ELSE @,
               !.recommendations_summary = CountKeys(@, classif.recommendations),
               !.total_size_mb = @ + status.git_size_mb]
    /\ n_analysis' = n_analysis + 1
    /\ UNCHANGED <<analyses, summary_pc, beyond_summary>>

\* summary['total_size_mb'] = round(summary['total_size_mb'], 1); return summary
SummaryReturn ==
    /\ summary_pc = "loop"
    /\ n_analysis > Len(analyses)
    /\ summary' = [summary EXCEPT !.total_size_mb = Round1(@)]
    /\ summary_pc' = "returned"
    /\ UNCHANGED <<analyses, n_analysis, beyond_summary>>

NextSummary == SummaryStart \/ SummaryStep \/ SummaryReturn

SpecSummary == InitSummary /\ [][NextSummary]_vars

\* The analysed repositories whose current_services holds a service.
ReposUsing(service) ==
    {n \in 1..Len(analyses) : service \in Range(analyses[n].classification.current_services)}

\* C29: the counts generate_summary returns are consistent with the list: the
\* three complexity counts sum to total_repositories, migration_needed and
\* has_multi_push are at most total_repositories, and each services_usage count
\* is the number of analysed repositories whose current_services holds it.
C29_SummaryConsistent ==
    summary_pc = "returned" =>
        /\ summary.total_repositories = Len(analyses)
        /\ summary.complexity_breakdown["simple"] + summary.complexity_breakdown["medium"]
             + summary.complexity_breakdown["complex"] = summary.total_repositories
        /\ summary.migration_needed <= summary.total_repositories
        /\ summary.has_multi_push <= summary.total_repositories
        /\ \A service \in DOMAIN summary.services_usage :
              summary.services_usage[service] = Cardinality(ReposUsing(service))
        /\ \A service \in {"alpha", "beta", "gamma", "github"} :
              ReposUsing(service) # {} => service \in DOMAIN summary.services_usage

\* A summary over several repositories, two of them using the same service.
C29_Witness ==
    /\ summary_pc = "returned"
    /\ Len(analyses) = MaxAnalyses
    /\ Cardinality(ReposUsing("alpha")) >= 2
    /\ summary.services_usage["alpha"] >= 2
    /\ summary.complexity_breakdown["medium"] = 1

(***************************************************************************)
(* TelegramClient.send_message and send_plain_message: one call, one       *)
(* requests.post at a time, the server's answer or the network error drawn *)
(* with each request.                                                      *)
(***************************************************************************)
MaxRetries == 3

\* A retry budget that does not shrink would post for ever; no request is
\* modelled beyond one more than the largest max_retries.
MaxPosts == MaxRetries + 1

ParseModes == {None, "HTML", "Markdown"}

\* What a requests.post can end in: a status code with a JSON body saying ok or
\* not, a status that raise_for_status turns into an HTTPError, a body that is
\* not JSON, or a network error.
Responses == {"200 ok", "200 not ok", "200 not json", "400", "403", "404", "500", "timeout"}

\* re.sub(r'\s+', ' ', cleaned): a run of spaces becomes one space.
RECURSIVE CollapseSpaces(_)
CollapseSpaces(text) ==
    IF Len(text) < 2 THEN text
    ELSE IF SubSeq(text, 1, 2) = "  " THEN CollapseSpaces(SubSeq(text, 2, Len(text)))
    ELSE SubSeq(text, 1, 1) \o CollapseSpaces(SubSeq(text, 2, Len(text)))

\* str.strip() after the collapse: at most one space at either end is left.
Strip(text) ==
    LET lead == IF Len(text) > 0 /\ SubSeq(text, 1, 1) = " "
                THEN SubSeq(text, 2, Len(text)) ELSE text
    IN  IF Len(lead) > 0 /\ SubSeq(lead, Len(lead), Len(lead)) = " "
        THEN SubSeq(lead, 1, Len(lead) - 1) ELSE lead

\* _clean_message_text on text without control characters or markup.
clean_message_text(text) == IF text = "" THEN "" ELSE Strip(CollapseSpaces(text))

InitTelegram ==
    /\ default_parse_mode \in ParseModes
    /\ message \in {"", "hi", " a  b "}
    /\ max_retries0 \in 0..MaxRetries
    /\ sender = None
    /\ parse_mode = None
    /\ max_retries = 0
    /\ attempt = 0
    /\ payload = <<>>
    /\ retrying = FALSE
    /\ posts = <<>>
    /\ telegram_pc = "caller"
    /\ sent = None
    /\ ManagerIdle
    /\ StartupIdle
    /\ AnalyzerIdle
    /\ ResolverIdle
    /\ RenderIdle
    /\ SummaryIdle
    /\ GeoIdle

\* What sending a message never touches.
beyond_telegram == <<managervars, startupvars, analyzervars, resolvervars, rendervars,
                     summaryvars, geovars>>

\* client.send_message(message, parse_mode=..., max_retries=...)
CallSendMessage ==
    /\ telegram_pc = "caller"
    /\ sender' = "send_message"
    /\ parse_mode' \in ParseModes
    /\ max_retries' = max_retries0
    /\ telegram_pc' = "send_message"
    /\ UNCHANGED <<default_parse_mode, message, max_retries0, attempt, payload, retrying,
                   posts, sent, beyond_telegram>>

\* client.send_plain_message(message, max_retries=...):
\* return self.send_message(message, parse_mode=None, **kwargs)
CallSendPlainMessage ==
    /\ telegram_pc = "caller"
    /\ sender' = "send_plain_message"
    /\ parse_mode' = None
    /\ max_retries' = max_retries0
    /\ telegram_pc' = "send_message"
    /\ UNCHANGED <<default_parse_mode, message, max_retries0, attempt, payload, retrying,
                   posts, sent, beyond_telegram>>

\* return <value>
ReturnSent(value) == /\ sent' = value /\ telegram_pc' = "returned"

\* send_message down to its loop: the empty message, the default parse mode,
\* the payload.
SendMessageEnter ==
    /\ telegram_pc = "send_message"
    /\ IF message = ""
       THEN /\ ReturnSent("False")
            /\ UNCHANGED <<parse_mode, payload, attempt>>
       ELSE LET mode == IF parse_mode = None THEN default_parse_mode ELSE parse_mode
                base == [chat_id |-> "chat", text |-> clean_message_text(message),
                         disable_web_page_preview |-> FALSE]
            IN /\ parse_mode' = mode
               /\ payload' = IF ~Falsy(mode) THEN ("parse_mode" :> mode) @@ base ELSE base
               /\ attempt' = 0
               /\ telegram_pc' = "loop"
               /\ UNCHANGED sent
    /\ UNCHANGED <<default_parse_mode, sender, message, max_retries, max_retries0, retrying,
                   posts, beyond_telegram>>

\* The retry budget that forgets the attempts already made.
RetryBudget_Whole(retries, tried) == retries

\* max_retries=max_retries-attempt-1
RetryBudget(retries, tried) == retries - tried - 1

\* except requests.RequestException: sleep and go on, or give up on the last attempt.
RequestFailed ==
    IF attempt < max_retries - 1
    THEN /\ attempt' = attempt + 1
         /\ UNCHANGED <<parse_mode, max_retries, retrying, telegram_pc, sent>>
    ELSE /\ ReturnSent("False")
         /\ UNCHANGED <<parse_mode, max_retries, retrying, attempt>>

\* One turn of "for attempt in range(max_retries)": the request and what
\* follows from its response.
SendMessagePost ==
    /\ telegram_pc = "loop"
    /\ attempt < max_retries
    /\ Len(posts) < MaxPosts
    /\ \E response \in Responses :
         /\ posts' = Append(posts, [payload |-> payload, response |-> response,
                                    retry |-> retrying])
         /\ CASE response \in {"404", "403"} ->
                   /\ ReturnSent("False")
                   /\ UNCHANGED <<parse_mode, max_retries, retrying, attempt>>
              [] response = "400" ->
                   IF ~Falsy(parse_mode) /\ attempt < max_retries - 1
                   THEN \* return self.send_message(message, parse_mode=None, max_retries=...)
                        /\ parse_mode' = None
                        /\ max_retries' = RetryBudget(max_retries, attempt)
                        /\ retrying' = TRUE
                        /\ telegram_pc' = "send_message"
                        /\ UNCHANGED <<attempt, sent>>
                   ELSE /\ ReturnSent("False")
                        /\ UNCHANGED <<parse_mode, max_retries, retrying, attempt>>
              [] response = "200 ok" ->
                   /\ ReturnSent("True")
                   /\ UNCHANGED <<parse_mode, max_retries, retrying, attempt>>
              [] response = "200 not ok" ->
                   /\ ReturnSent("False")
                   /\ UNCHANGED <<parse_mode, max_retries, retrying, attempt>>
              [] response \in {"500", "timeout"} -> RequestFailed
              [] response = "200 not json" ->
                   \* response.json() raises a RequestException with requests 2.27
                   \* and later, a plain ValueError before
                   \/ RequestFailed
                   \/ /\ telegram_pc' = "raised"
                      /\ UNCHANGED <<parse_mode, max_retries, retrying, attempt, sent>>
    /\ UNCHANGED <<default_parse_mode, sender, message, max_retries0, payload,
                   beyond_telegram>>

\* The "return False" after the loop.
SendMessageExhausted ==
    /\ telegram_pc = "loop"
    /\ attempt >= max_retries
    /\ ReturnSent("False")
    /\ UNCHANGED <<default_parse_mode, sender, message, parse_mode, max_retries, max_retries0,
                   attempt, payload, retrying, posts, beyond_telegram>>

NextTelegram ==
    \/ CallSendMessage
    \/ CallSendPlainMessage
    \/ SendMessageEnter
    \/ SendMessagePost
    \/ SendMessageExhausted

SpecTelegram == InitTelegram /\ [][NextTelegram]_vars

\* The interpreter runs the call to its end: no step waits for ever.
SpecTelegramLive == SpecTelegram /\ WF_vars(NextTelegram)

\* The requests made so far for a message that is to go out unformatted: all
\* of send_plain_message's, and those of a retry "without parse_mode".
PlainPosts == {m \in 1..Len(posts) : sender = "send_plain_message" \/ posts[m].retry}

\* C24: a message sent without formatting carries no parse_mode: whatever the
\* client's default_parse_mode, no request of send_plain_message and no request
\* of the retry after a 400 response has a parse_mode field in its payload.
C24_PlainHasNoParseMode ==
    \A m \in PlainPosts : "parse_mode" \notin DOMAIN posts[m].payload

\* The call has ended.
Ended == telegram_pc \in {"returned", "raised"}

\* Everything the call has posted and returned so far is within the contract.
WithinBudget ==
    /\ Len(posts) <= max_retries0
    /\ \A m \in 1..Len(posts) :
          posts[m].response \in {"404", "403"} =>
              /\ m = Len(posts)
              /\ telegram_pc = "returned"
              /\ sent = "False"
    /\ message = "" => /\ posts = <<>>
                       /\ Ended => (telegram_pc = "returned" /\ sent = "False")

\* C26: send_message with max_retries = n >= 1 terminates whatever the server
\* answers and the network does, with at most n POST requests in total, those
\* of the recursive retry after a 400 response included; a 404 or 403 response
\* ends it with False and no further request, an empty message with False and
\* no request at all.
C26_TerminatesWithinBudget ==
    /\ [](max_retries0 >= 1 => WithinBudget)
    /\ (max_retries0 >= 1) => <>Ended

\* A call allowed MaxRetries requests used them all: a failure, then a 400
\* answered by the retry, whose last request got a 404.
C26_Witness ==
    /\ Ended
    /\ max_retries0 = MaxRetries
    /\ Len(posts) = MaxRetries
    /\ posts[1].response = "timeout"
    /\ posts[2].response = "400"
    /\ posts[Len(posts)].retry
    /\ posts[Len(posts)].response = "404"
    /\ sent = "False"

(***************************************************************************)
(* remove_geo_keys: the recursive clean-up of a parsed JSON document.  A   *)
(* node is a scalar, a dict (its items in key order) or a list; the tree   *)
(* is changed in place, so what a call that raises has already changed     *)
(* stays changed.                                                          *)
(***************************************************************************)
MaxWidth == 2

MaxCleanings == 2

KEYS_TO_REMOVE ==
    {"startLatitude", "startLongitude", "endLatitude", "endLongitude",
     "maxLatitude", "maxLongitude", "minLatitude", "minLongitude"}

FIELD_ENUMS_TO_REMOVE == {"END_LONGITUDE", "END_LATITUDE"}

Scalar(v) == [type |-> "scalar", value |-> v, items |-> <<>>]

\* A dict of the given <<key, node>> pairs, in insertion order.
Dict(pairs) ==
    [type |-> "dict", value |-> "",
     items |-> [m \in 1..Len(pairs) |-> [key |-> pairs[m][1], node |-> pairs[m][2]]]]

List(nodes) ==
    [type |-> "list", value |-> "",
     items |-> [m \in 1..Len(nodes) |-> [key |-> "", node |-> nodes[m]]]]

\* dict.get(key): None without the key.
DictGet(node, key) ==
    IF \E m \in 1..Len(node.items) : node.items[m].key = key
    THEN node.items[CHOOSE m \in 1..Len(node.items) : node.items[m].key = key].node
    ELSE Scalar(None)

\* "x in FIELD_ENUMS_TO_REMOVE" hashes x: a list or a dict is unhashable.
Hashable(node) == node.type = "scalar"

\* Parts of activity exports, and JSON that is merely valid.
Children ==
    LET point == Dict(<<<<"startLatitude", Scalar("1")>>, <<"name", Scalar("x")>>>>)
        block == Dict(<<<<"fieldEnum", Scalar("END_LATITUDE")>>, <<"name", Scalar("x")>>>>)
        other == Dict(<<<<"fieldEnum", Scalar("OTHER")>>, <<"maxLongitude", Scalar("1")>>>>)
    IN { Scalar("x"),
         Scalar("END_LATITUDE"),
         point,
         block,
         other,
         Dict(<<<<"fieldEnum", List(<<Scalar("END_LATITUDE")>>)>>>>),
         List(<<block, point>>),
         Dict(<<<<"laps", List(<<point, block, other>>)>>, <<"endLatitude", Scalar("2")>>>>) }

RootKeys == {"summary", "minLatitude", "fieldEnum"}

\* The documents: a list or a dict of up to MaxWidth children.
Documents ==
    UNION {{List(nodes) : nodes \in [1..n -> Children]} : n \in 0..MaxWidth}
    \cup UNION {{Dict([m \in 1..n |-> <<keys[m], nodes[m]>>]) :
                    keys \in {ks \in [1..n -> RootKeys] :
                                \A a, b \in 1..n : ks[a] = ks[b] => a = b},
                    nodes \in [1..n -> Children]} : n \in 0..MaxWidth}

InitGeo ==
    /\ data \in Documents
    /\ cleanings = <<>>
    /\ ManagerIdle
    /\ StartupIdle
    /\ AnalyzerIdle
    /\ ResolverIdle
    /\ RenderIdle
    /\ SummaryIdle
    /\ TelegramIdle

\* What cleaning a document never touches.
beyond_geo == <<managervars, startupvars, analyzervars, resolvervars, rendervars,
                summaryvars, telegramvars>>

RECURSIVE remove_geo_keys(_)
RECURSIVE CleanValues(_, _)
RECURSIVE CleanItems(_, _, _)

\* CleanValues that leaves the values of a dict as they are.
CleanValues_Shallow(items, m) == [items |-> items, raised |-> FALSE]

\* for v in obj.values(): remove_geo_keys(v), from the m-th value on.
CleanValues(items, m) ==
    IF m > Len(items) THEN [items |-> items, raised |-> FALSE]
    ELSE LET r == remove_geo_keys(items[m].node)
             done == [items EXCEPT ![m].node = r.obj]
         IN  IF r.raised THEN [items |-> done, raised |-> TRUE]
             ELSE CleanValues(done, m + 1)

\* for item in obj: ..., from the m-th item on, then obj[:] = cleaned.  An
\* exception leaves the list with all its items, those already visited as the
\* recursion left them.
CleanItems(items, m, cleaned) ==
    IF m > Len(items) THEN [items |-> cleaned, raised |-> FALSE]
    ELSE LET item == items[m].node
         IN  IF item.type = "dict" /\ ~Hashable(DictGet(item, "fieldEnum"))
             THEN [items |-> items, raised |-> TRUE]
             ELSE IF item.type = "dict"
                     /\ DictGet(item, "fieldEnum").value \in FIELD_ENUMS_TO_REMOVE
             THEN CleanItems(items, m + 1, cleaned)
             ELSE LET r == remove_geo_keys(item)
                      done == [items EXCEPT ![m].node = r.obj]
                  IN  IF r.raised THEN [items |-> done, raised |-> TRUE]
                      ELSE CleanItems(done, m + 1, Append(cleaned, done[m]))

\* remove_geo_keys(obj): what obj is afterwards, and whether the call raised.
remove_geo_keys(obj) ==
    IF obj.type = "dict"
    THEN LET Stays(pair) == pair.key \notin KEYS_TO_REMOVE
             r == CleanValues(SelectSeq(obj.items, Stays), 1)
         IN  [obj |-> [obj EXCEPT !.items = r.items], raised |-> r.raised]
    ELSE IF obj.type = "list"
    THEN LET r == CleanItems(obj.items, 1, <<>>)
         IN  [obj |-> [obj EXCEPT !.items = r.items], raised |-> r.raised]
    ELSE [obj |-> obj, raised |-> FALSE]

\* remove_geo_keys(data), on the document as the previous call left it.
CleanData ==
    /\ data # <<>>
    /\ Len(cleanings) < MaxCleanings
    /\ cleanings' = Append(cleanings,
                           remove_geo_keys(IF cleanings = <<>> THEN data
                                           ELSE cleanings[Len(cleanings)].obj))
    /\ UNCHANGED <<data, beyond_geo>>

NextGeo == CleanData

SpecGeo == InitGeo /\ [][NextGeo]_vars

\* The nodes directly under a node.
Under(node) == {node.items[m].node : m \in 1..Len(node.items)}

\* Some dict of the tree has a key of KEYS_TO_REMOVE.
RECURSIVE HasGeoKey(_)
HasGeoKey(node) ==
    \/ node.type = "dict" /\ \E m \in 1..Len(node.items) : node.items[m].key \in KEYS_TO_REMOVE
    \/ \E below \in Under(node) : HasGeoKey(below)

\* A dict whose fieldEnum is one of FIELD_ENUMS_TO_REMOVE.
EnumBlock(node) ==
    /\ node.type = "dict"
    /\ \E m \in 1..Len(node.items) :
          /\ node.items[m].key = "fieldEnum"
          /\ node.items[m].node.type = "scalar"
          /\ node.items[m].node.value \in FIELD_ENUMS_TO_REMOVE

\* Some list of the tree has such a dict among its elements.
RECURSIVE HasEnumBlock(_)
HasEnumBlock(node) ==
    \/ node.type = "list" /\ \E below \in Under(node) : EnumBlock(below)
    \/ \E below \in Under(node) : HasEnumBlock(below)

\* The tree with the geo keys and the enum blocks taken out and everything
\* else kept, in order.
RECURSIVE Stripped(_)
Stripped(node) ==
    LET Kept(pair) == IF node.type = "dict" THEN pair.key \notin KEYS_TO_REMOVE
                      ELSE ~EnumBlock(pair.node)
        kept == SelectSeq(node.items, Kept)
    IN  [node EXCEPT !.items = [m \in 1..Len(kept) |->
                                   [key |-> kept[m].key, node |-> Stripped(kept[m].node)]]]

\* Some fieldEnum of the tree is a list or a dict.
RECURSIVE HasCompoundEnum(_)
HasCompoundEnum(node) ==
    \/ node.type = "dict" /\ \E m \in 1..Len(node.items) :
          node.items[m].key = "fieldEnum" /\ node.items[m].node.type # "scalar"
    \/ \E below \in Under(node) : HasCompoundEnum(below)

\* What the claim says of the calls made so far.
CleanedAsStated ==
    cleanings # <<>> =>
        /\ ~cleanings[1].raised
        /\ ~HasGeoKey(cleanings[1].obj)
        /\ ~HasEnumBlock(cleanings[1].obj)
        /\ cleanings[1].obj = Stripped(data)
        /\ Len(cleanings) >= 2 => cleanings[2] = cleanings[1]

====
